---- MODULE Spec2Model ----
(***************************************************************************)
(* Model of the Orphan Block Container (src/src/storage/obc.cpp) and of    *)
(* the Peer Manager (src/src/peer/peer_manager.cpp).                       *)
(*                                                                         *)
(* Spec      : AddBlock and SubmitHash as whole calls, one after another.  *)
(* SpecCaller: the same, with SubmitHash called only for hashes of blocks  *)
(*             the container does not hold.                                *)
(* SpecPrev  : Spec with every AddBlock declaring only prev missing.        *)
(* SpecConc  : SubmitHash split at the points where the writer lock is     *)
(*             released, run by several threads next to AddBlock.          *)
(* SpecReadd : Spec with AddBlock also called for blocks already held.     *)
(* SpecOnce  : Spec with the calls of AddBlock with mask 0 recorded.       *)
(* SpecMsg   : HandleMessage next to the connection callbacks.             *)
(* SpecAddr  : HandleMessage for ADDR messages.                            *)
(* SpecSweep : CheckTimeout next to the peers' handshake and ping events.  *)
(* SpecSched : ScheduleTask running CheckTimeout once per interval.        *)
(* SpecDial  : OpenConnection with an address book and a minute clock.     *)
(* SpecOut   : OpenConnection with dials that succeed.                     *)
(* SpecBook  : ADDR messages, the log of calls cleared between events.     *)
(* SpecRelay : RelayBlock, RelayTransaction and RelayAddressMsg alone.     *)
(* SpecLost  : SpecSweep with connections that are lost.                   *)
(* SpecSync  : InitialSync next to the peers' events and a minute clock.   *)
(* SpecStop  : Stop, the four worker loops and the callbacks.              *)
(* SpecStopFair: SpecStop with every thread scheduled.                     *)
(* SpecConn  : the connection callbacks and the peer counts.               *)
(* SpecLock  : the threads that take peerLock_, step by step.              *)
(* SpecLockFair: SpecLock with every thread scheduled.                     *)
(* SpecRace  : SpecConc with AddBlock called while SubmitHash runs.        *)
(* SpecGone  : CheckTimeout next to peers that get disconnected.           *)
(* SpecGoneFair: SpecGone with the scheduler running CheckTimeout.         *)
(* SpecAny   : HandleMessage for messages of any connection handle.        *)
(* SpecKey   : ConcurrentHashMap (src/src/utils/concurrent_container.h).   *)
(***************************************************************************)
EXTENDS Integers, Naturals, Sequences, FiniteSets, TLC

\* ------------------------------------------------------------------ bounds
\* Hashes are 1..MaxHash.  A block's parents have a smaller hash than the
\* block itself (a hash commits to the parents, so the parent relation is
\* acyclic); hash 1 is never the hash of an orphan.
MaxHash == 4

\* Number of AddBlock calls with a non-zero mask in one behaviour.
MaxAdds == 2

\* Number of threads of SpecConc.
NumThreads == 2

\* Number of SubmitHash calls SpecConc lets each thread start.
MaxCalls == 1

\* Connection handles of the specifications without a clock.
MaxConns == 2

\* Connection handles of the specifications with a clock.
MaxTimed == 1

\* Connection handles of the specification of the relays.
MaxRelay == 3

\* Values last_bundle_ms_time takes besides 0.
MaxBundles == 2

\* Net addresses of ordinary nodes (besides one loopback and one seed address).
MaxAddrs == 1

\* Seconds the clock runs on from StartTime.
MaxElapsed == 240

\* Keys of the ConcurrentHashMap are 1..MaxKeys.
MaxKeys == 3

\* Values of the ConcurrentHashMap are 1..MaxVals.
MaxVals == 2

\* Number of update_key calls in one behaviour.
MaxUpdates == 2

\* Seconds between two readings of the clock where it is read by the minute.
TimeStep == 60

\* --------------------------------------------------------------- constants
\* obc.h: bits of missing_mask.
M_MISSING == 1
T_MISSING == 2
P_MISSING == 4

\* obc.h: obc_dep::ndeps is an unsigned 8 bit counter.
NdepsWidth == 8

\* peer_manager.h: max outbound size.
kMax_outbound == 8

\* peer_manager.h: timeout of the version handshake, 3 * 60.
kConnectionSetupTimeout == 180

\* peer_manager.h: timeout between sending ping and receiving pong, 3 * 60.
kPingWaitTimeout == 180

\* peer_manager.h: max number of ping failures.
kMaxPingFailures == 3

\* OpenConnection: tries per iteration (while (num_tries < 100)).
MaxTries == 100

\* OpenConnection: seconds before an address is tried again (now - lastTry < 120).
RetryInterval == 120

\* Kept by collaborators whose headers are not part of the sources at hand:
\* the cap of an ADDR list, the number of draws of RelayAddressMsg and the
\* period of CheckTimeout.  The model takes small values for them.
kMaxAddressSize == 2
kMaxPeersToRelayAddr == 2
kCheckTimeoutInterval == 3

\* Not in the sources at hand either: the seconds between two stall checks
\* of InitialSync and the age of the milestone head below which the node
\* counts as synced.
kCheckSyncInterval == 3
kSyncTimeThreshold == 60

\* time(nullptr) when the node starts; lastTry of an address never tried is 0.
StartTime == 1000

Hashes == 1 .. MaxHash
Masks  == 0 .. 7

\* A block: its own hash and the three parent hashes.  The parent fields are
\* taken in non-decreasing order: with the mask choosing any of the fields,
\* every multiset of one to three missing parents is still declared.
Blocks ==
    { b \in [hash : Hashes, ms : Hashes, tip : Hashes, prev : Hashes] :
        b.ms <= b.tip /\ b.tip <= b.prev /\ b.prev < b.hash }

\* An optional without a value; SubmitHash returns it or a list of blocks
\* (the blocks of the list are the ones appended to released).
NoValue == [has_value |-> FALSE]

\* An obc_dep is referred to by its key in heap (a shared_ptr); its block
\* field holds the hash of the block it points to.

VARIABLES
    block_dep_map,   \* hash -> obc_dep_ptr      (function on its key set)
    lose_ends,       \* hash -> set of obc_dep_ptr (function on its key set)
    heap,            \* obc_dep_ptr -> obc_dep, the objects ever allocated
    submitted,       \* history: hashes passed to SubmitHash so far
    released,        \* history: blocks returned by SubmitHash, in order
    declared,        \* history: hash -> set of parent hashes declared missing
    ret,             \* history: what the last SubmitHash call returned
    th,              \* SpecConc: per thread position and locals
    unmasked,        \* history: hashes of the blocks passed to AddBlock with mask 0
    peerMap,         \* connection handle -> Peer  (function on its key set)
    initial_sync,    \* the flag initial_sync_
    now,             \* what time(nullptr) returns
    outbound,        \* ConnectionManager: number of outbound connections
    lastTry,         \* AddressManager: known address -> time of the last try
    sched,           \* scheduler: the time CheckTimeout is due next
    num_tries,       \* OpenConnection: its local, as the last iteration left it
    calls,           \* the calls the last step made on the collaborators
    lastDial,        \* history: known address -> time OpenConnection dialed it last
    initial_sync_peer,        \* InitialSync: handle of initial_sync_peer_, 0 for nullptr
    next,                     \* InitialSync: its static next, <<>> before its initialisation
    old_last_bundle_ms_time,  \* InitialSync: its static of that name
    lastCheck,       \* history: peer and last_bundle_ms_time of the last stall check
    interrupt,       \* the flag interrupt_
    quit,            \* ConnectionManager: QuitQueue has been called
    pc,              \* worker loop -> where its thread is
    stop,            \* where the thread calling Stop is
    peerLock,        \* peerLock_: the thread holding it exclusively, the threads sharing it
    closing,         \* closed connection -> how far its OnConnectionClosed has come
    relayer,         \* the thread inside RelayBlock: its position and the peers left
    task,            \* the scheduler thread: its position and the peers left
    hashMap,         \* a ConcurrentHashMap: key -> value (function on its key set)
    updated          \* history: the last call of update_key and what it returned

obcvars == <<block_dep_map, lose_ends, heap, submitted, released, declared, ret, th, unmasked>>

peervars == <<peerMap, initial_sync, now, outbound, lastTry, sched, num_tries, calls, lastDial>>

\* The worker loops of the Peer Manager and Stop.
syncvars == <<initial_sync_peer, next, old_last_bundle_ms_time, lastCheck>>

stopvars == <<interrupt, quit, pc, stop>>

lockvars == <<peerLock, closing, relayer, task>>

\* A ConcurrentHashMap of the utilities.
mapvars == <<hashMap, updated>>

loopvars == <<syncvars, stopvars, lockvars, mapvars>>

vars == <<obcvars, peervars, loopvars>>

\* ------------------------------------------------------------------ helpers
HasBit(mask, bit) == (mask \div bit) % 2 = 1

\* The parent hashes selected by the mask, in the order AddBlock visits them.
MissingSeq(block, mask) ==
    (IF HasBit(mask, M_MISSING) THEN <<block.ms>> ELSE <<>>) \o
    (IF HasBit(mask, T_MISSING) THEN <<block.tip>> ELSE <<>>) \o
    (IF HasBit(mask, P_MISSING) THEN <<block.prev>> ELSE <<>>)

Range(s) == { s[i] : i \in DOMAIN s }

\* f with key k mapped to v (insert or overwrite).
MapPut(f, k, v) == [x \in (DOMAIN f) \cup {k} |-> IF x = k THEN v ELSE f[x]]

\* f without key k.
MapErase(f, k) == [x \in (DOMAIN f) \ {k} |-> f[x]]

EmptyMap == [x \in {} |-> 0]

\* All orders in which a set can be iterated.
Orders(S) == { s \in [1 .. Cardinality(S) -> S] : Range(s) = S }

\* ---------------------------------------------------------------- AddBlock
\* make_shared<obc_dep>(): a pointer not in use.  Pointer values carry no
\* meaning, so the first obc_dep of a block is named by the block's hash.
RECURSIVE NewDep(_)
NewDep(p) == IF p \in DOMAIN heap THEN NewDep(p + MaxHash) ELSE p

\* The lambda common_insert: st is what it captures by reference (the two
\* maps, the obc_dep objects and unique_missing_hashes).
common_insert(st, hash, dep) ==
    LET st1 == [st EXCEPT !.unique_missing_hashes = @ \cup {hash}]
    IN  IF hash \notin DOMAIN st.map
        THEN [st1 EXCEPT !.lose = MapPut(st.lose, hash,
                 (IF hash \in DOMAIN st.lose THEN st.lose[hash] ELSE {}) \cup {dep})]
        ELSE [st1 EXCEPT !.heap[st.map[hash]].deps = Append(@, dep)]

RECURSIVE InsertAll(_, _, _)
InsertAll(st, hashes, dep) ==
    IF hashes = <<>> THEN st
    ELSE InsertAll(common_insert(st, Head(hashes), dep), Tail(hashes), dep)

\* AddBlockResult with ndeps counting the selected parent fields instead of
\* the distinct hashes among them.
AddBlockResult_CountsFields(block, mask) ==
    LET dep  == NewDep(block.hash)
        st0  == [map  |-> MapPut(block_dep_map, block.hash, dep),
                 lose |-> lose_ends,
                 heap |-> MapPut(heap, dep, [block |-> block.hash, ndeps |-> 0, deps |-> <<>>]),
                 unique_missing_hashes |-> {}]
        st1  == InsertAll(st0, MissingSeq(block, mask), dep)
    IN  [st1 EXCEPT !.heap[dep].ndeps = Len(MissingSeq(block, mask))]

\* The container after AddBlock(block, missing_mask) with a non-zero mask.
AddBlockResult(block, mask) ==
    LET dep  == NewDep(block.hash)
        st0  == [map  |-> MapPut(block_dep_map, block.hash, dep),
                 lose |-> lose_ends,
                 heap |-> MapPut(heap, dep, [block |-> block.hash, ndeps |-> 0, deps |-> <<>>]),
                 unique_missing_hashes |-> {}]
        st1  == InsertAll(st0, MissingSeq(block, mask), dep)
    IN  [st1 EXCEPT !.heap[dep].ndeps = Cardinality(st1.unique_missing_hashes)]

\* The caller adds a block hash once and declares missing only parents that
\* are neither submitted nor released yet.
AddBlockEnabled(block, mask) ==
    /\ block.hash \notin DOMAIN declared
    /\ mask # 0 => Cardinality(DOMAIN heap) < MaxAdds
    /\ \A p \in Range(MissingSeq(block, mask)) :
            p \notin submitted /\ p \notin Range(released)

AddBlock(block, mask) ==
    /\ AddBlockEnabled(block, mask)
    /\ IF mask = 0
       THEN UNCHANGED <<block_dep_map, lose_ends, heap, declared>>
       ELSE LET r == AddBlockResult(block, mask)
            IN  /\ block_dep_map' = r.map
                /\ lose_ends' = r.lose
                /\ heap' = r.heap
                /\ declared' = MapPut(declared, block.hash, Range(MissingSeq(block, mask)))
    /\ UNCHANGED <<submitted, released, ret, th>>
    /\ UNCHANGED <<unmasked, peervars, loopvars>>

\* -------------------------------------------------------------- SubmitHash
\* cursor->ndeps-- on the unsigned counter.
Decrement(n) == (n + 2^NdepsWidth - 1) % 2^NdepsWidth

Pop(stack) == SubSeq(stack, 1, Len(stack) - 1)

\* LoopBody with the test ndeps > 1 in place of ndeps > 0.
LoopBody_ContinueAboveOne(s) ==
    LET cursor == s.stack[Len(s.stack)]
        nd     == Decrement(s.heap[cursor].ndeps)
        h1     == [s.heap EXCEPT ![cursor].ndeps = nd]
    IN  IF nd > 1
        THEN [s EXCEPT !.stack = Pop(s.stack), !.heap = h1]
        ELSE [stack  |-> Pop(s.stack) \o s.heap[cursor].deps,
              result |-> Append(s.result, s.heap[cursor].block),
              heap   |-> h1,
              map    |-> MapErase(s.map, s.heap[cursor].block)]

\* One pass of the while loop.  s holds the locals stack and result and the
\* parts of the container the loop touches.
LoopBody(s) ==
    LET cursor == s.stack[Len(s.stack)]
        nd     == Decrement(s.heap[cursor].ndeps)
        h1     == [s.heap EXCEPT ![cursor].ndeps = nd]
    IN  IF nd > 0
        THEN [s EXCEPT !.stack = Pop(s.stack), !.heap = h1]
        ELSE [stack  |-> Pop(s.stack) \o s.heap[cursor].deps,
              result |-> Append(s.result, s.heap[cursor].block),
              heap   |-> h1,
              map    |-> MapErase(s.map, s.heap[cursor].block)]

RECURSIVE RunLoop(_)
RunLoop(s) == IF s.stack = <<>> THEN s ELSE RunLoop(LoopBody(s))

\* SubmitHash without the early return for a hash that ties no lose end.
SubmitHash_NoEarlyReturn(hash) ==
    /\ submitted' = submitted \cup {hash}
    /\ \E stack \in Orders(IF hash \in DOMAIN lose_ends THEN lose_ends[hash] ELSE {}) :
          LET fin == RunLoop([stack |-> stack, result |-> <<>>,
                              heap |-> heap, map |-> block_dep_map])
          IN  /\ lose_ends' = MapErase(lose_ends, hash)
              /\ block_dep_map' = fin.map
              /\ heap' = fin.heap
              /\ released' = released \o fin.result
              /\ ret' = [has_value |-> TRUE]
    /\ UNCHANGED <<declared, th>>
    /\ UNCHANGED <<unmasked, peervars, loopvars>>

SubmitHash(hash) ==
    /\ submitted' = submitted \cup {hash}
    /\ IF hash \notin DOMAIN lose_ends
       THEN /\ ret' = [has_value |-> FALSE]
            /\ UNCHANGED <<block_dep_map, lose_ends, heap, released>>
       ELSE \E stack \in Orders(lose_ends[hash]) :
              LET fin == RunLoop([stack |-> stack, result |-> <<>>,
                                  heap |-> heap, map |-> block_dep_map])
              IN  /\ lose_ends' = MapErase(lose_ends, hash)
                  /\ block_dep_map' = fin.map
                  /\ heap' = fin.heap
                  /\ released' = released \o fin.result
                  /\ ret' = [has_value |-> TRUE]
    /\ UNCHANGED <<declared, th>>
    /\ UNCHANGED <<unmasked, peervars, loopvars>>

\* The threads Start creates: the loops HandleMessage, ScheduleTask,
\* OpenConnection and InitialSync.
Workers == {"HandleMessage", "ScheduleTask", "OpenConnection", "InitialSync"}

\* ------------------------------------------------------------- peerLock_
\* A std::shared_mutex: held by one thread exclusively (unique_lock) or by
\* any number of threads together (shared_lock).
LockFree == [unique |-> <<>>, shared |-> {}]

CanLockShared(l) == l.unique = <<>>
CanLockUnique(l) == l.unique = <<>> /\ l.shared = {}

\* A thread iterating over peerMap_: where it is and the handles it has
\* still to visit.
IdleIteration == [pc |-> "idle", todo |-> <<>>]

\* ------------------------------------------------------- ConcurrentHashMap
Keys == 1 .. MaxKeys

Values == 1 .. MaxVals

\* No call of update_key yet.
NoUpdate == [n |-> 0]

\* c.extract(k): the node of key k taken out of the map, an empty node
\* handle (<<>>) when the map has no such key.
Extract(c, k) ==
    IF k \in DOMAIN c
    THEN [c |-> MapErase(c, k), node |-> <<[key |-> k, mapped |-> c[k]]>>]
    ELSE [c |-> c, node |-> <<>>]

\* The variant of InsertNode that assigns to the element it finds.
InsertNode_Assigns(c, nh) ==
    [c |-> MapPut(c, nh.key, nh.mapped), inserted |-> nh.key \notin DOMAIN c]

\* c.insert(node_type&&) of a map with unique keys: the node goes in when
\* the map has no element of its key; otherwise the map stays as it is and
\* the node is handed back in the result, to be destroyed with it.
InsertNode(c, nh) ==
    IF nh.key \in DOMAIN c
    THEN [c |-> c, inserted |-> FALSE]
    ELSE [c |-> MapPut(c, nh.key, nh.mapped), inserted |-> TRUE]

\* update_key(oldKey, newKey), under the writer lock for the whole call:
\* the map it leaves and the value it returns.
update_key(c, oldKey, newKey) ==
    LET entry == Extract(c, oldKey)
    IN  IF entry.node # <<>>
        THEN LET r == InsertNode(entry.c, [entry.node[1] EXCEPT !.key = newKey])
             IN  [c |-> r.c, ret |-> r.inserted]
        ELSE [c |-> entry.c, ret |-> FALSE]

\* ------------------------------------------------------------- sequential
IdleThread ==
    [pc |-> "idle", hash |-> 0, stack |-> <<>>, result |-> <<>>,
     cursor |-> 0, tmp |-> 0, calls |-> 0,
     \* history: the pairs <<d, e>> of an obc_dep e pushed from the deps of d,
     \* and the obc_deps made by AddBlock while the thread was in SubmitHash
     pushed |-> {}, raced |-> {}]

Init ==
    /\ block_dep_map = EmptyMap
    /\ lose_ends = EmptyMap
    /\ heap = EmptyMap
    /\ submitted = {}
    /\ released = <<>>
    /\ declared = EmptyMap
    /\ ret = NoValue
    /\ th = [t \in 1 .. NumThreads |-> IdleThread]
    /\ unmasked = {}
    /\ peerMap = EmptyMap
    /\ initial_sync = TRUE
    /\ now = StartTime
    /\ outbound = 0
    /\ lastTry = EmptyMap
    /\ sched = StartTime + kCheckTimeoutInterval
    /\ num_tries = 0
    /\ calls = <<>>
    /\ lastDial = EmptyMap
    /\ initial_sync_peer = 0
    /\ next = <<>>
    /\ old_last_bundle_ms_time = 0
    /\ lastCheck = <<>>
    /\ peerLock = LockFree
    /\ closing = EmptyMap
    /\ relayer = IdleIteration
    /\ task = IdleIteration
    /\ hashMap = EmptyMap
    /\ updated = NoUpdate
    /\ interrupt = FALSE
    /\ quit = FALSE
    /\ pc = [w \in Workers |-> "test"]
    /\ stop = "idle"

Next ==
    \/ \E block \in Blocks, mask \in Masks : AddBlock(block, mask)
    \/ \E hash \in Hashes : SubmitHash(hash)

Spec == Init /\ [][Next]_vars

\* The node submits the hash of a block once the block is stored, which an
\* orphan held by the container is not.
SubmitStored(hash) ==
    /\ hash \notin DOMAIN block_dep_map
    /\ SubmitHash(hash)

NextCaller ==
    \/ \E block \in Blocks, mask \in Masks : AddBlock(block, mask)
    \/ \E hash \in Hashes : SubmitStored(hash)

SpecCaller == Init /\ [][NextCaller]_vars

\* Callers that declare exactly the prev parent missing (mask P_MISSING).
NextPrev ==
    \/ \E block \in Blocks : AddBlock(block, P_MISSING)
    \/ \E hash \in Hashes : SubmitHash(hash)

SpecPrev == Init /\ [][NextPrev]_vars

\* ------------------------------------------------------------------ re-add
\* AddBlock for a block whose hash is a key of block_dep_map already (the
\* caller's dedup check let it through).  It is the same block, so the
\* parents declared missing before are among its parent fields.
AddBlockAgain(block, mask) ==
    /\ block.hash \in DOMAIN block_dep_map
    /\ mask # 0
    /\ Cardinality(DOMAIN heap) < MaxAdds
    /\ declared[block.hash] \subseteq {block.ms, block.tip, block.prev}
    /\ \A p \in Range(MissingSeq(block, mask)) :
            p \notin submitted /\ p \notin Range(released)
    /\ LET r == AddBlockResult(block, mask)
       IN  /\ block_dep_map' = r.map
           /\ lose_ends' = r.lose
           /\ heap' = r.heap
    /\ declared' = MapPut(declared, block.hash,
                          declared[block.hash] \cup Range(MissingSeq(block, mask)))
    /\ UNCHANGED <<submitted, released, ret, th, unmasked, peervars, loopvars>>

NextReadd ==
    \/ \E block \in Blocks, mask \in Masks : AddBlock(block, mask)
    \/ \E block \in Blocks, mask \in Masks : AddBlockAgain(block, mask)
    \/ \E hash \in Hashes : SubmitHash(hash)

SpecReadd == Init /\ [][NextReadd]_vars

\* ------------------------------------------------------------ mask of zero
\* AddBlock without the test of missing_mask against 0.
AddBlockReturn_NoMaskTest(block, mask) ==
    AddBlockResult(block, mask)

\* The container when AddBlock(block, missing_mask) returns, for any mask.
AddBlockReturn(block, mask) ==
    IF mask = 0
    THEN [map |-> block_dep_map, lose |-> lose_ends, heap |-> heap,
          unique_missing_hashes |-> {}]
    ELSE AddBlockResult(block, mask)

\* AddBlock called by a node that hands a block over once, with whatever
\* mask; the calls with mask 0 are recorded in unmasked.
AddBlockOnce(block, mask) ==
    /\ block.hash \notin (DOMAIN declared) \cup unmasked
    /\ Cardinality(DOMAIN heap) + Cardinality(unmasked) < MaxAdds
    /\ \A p \in Range(MissingSeq(block, mask)) :
            p \notin submitted /\ p \notin Range(released)
    /\ LET r == AddBlockReturn(block, mask)
       IN  /\ block_dep_map' = r.map
           /\ lose_ends' = r.lose
           /\ heap' = r.heap
    /\ IF mask = 0
       THEN unmasked' = unmasked \cup {block.hash} /\ UNCHANGED declared
       ELSE /\ declared' = MapPut(declared, block.hash, Range(MissingSeq(block, mask)))
            /\ UNCHANGED unmasked
    /\ UNCHANGED <<submitted, released, ret, th, peervars, loopvars>>

NextOnce ==
    \/ \E block \in Blocks, mask \in Masks : AddBlockOnce(block, mask)
    \/ \E hash \in Hashes : SubmitHash(hash)

SpecOnce == Init /\ [][NextOnce]_vars

\* ------------------------------------------------------------- concurrent
\* SubmitHash of thread t, cut where the code gives up the writer lock.  The
\* steps between writer.unlock() and the next writer.lock() touch obc_dep
\* objects without any lock: cursor->ndeps-- is a load and a store, and the
\* test cursor->ndeps > 0 sees either the value just stored or the value
\* that is in memory by then.
Threads == 1 .. NumThreads

\* Lines 78-100: under the lock, take the entry of hash out of lose_ends.
SH_Begin(t, hash) ==
    /\ th[t].pc = "idle"
    /\ th[t].calls < MaxCalls
    /\ submitted' = submitted \cup {hash}
    /\ IF hash \notin DOMAIN lose_ends
       THEN /\ th' = [th EXCEPT ![t].calls = @ + 1]
            /\ ret' = [has_value |-> FALSE]
            /\ UNCHANGED lose_ends
       ELSE \E stack \in Orders(lose_ends[hash]) :
            /\ th' = [th EXCEPT ![t] = [IdleThread EXCEPT !.pc = "loop", !.hash = hash,
                                          !.stack = stack, !.calls = th[t].calls + 1,
                                          !.pushed = th[t].pushed,
                                          !.raced = th[t].raced]]
            /\ lose_ends' = MapErase(lose_ends, hash)
            /\ UNCHANGED ret
    /\ UNCHANGED <<block_dep_map, heap, released, declared>>
    /\ UNCHANGED <<unmasked, peervars, loopvars>>

\* Lines 103-109: loop test, pop, and the load of cursor->ndeps; line 132.
SH_Pop(t) ==
    /\ th[t].pc = "loop"
    /\ IF th[t].stack = <<>>
       THEN /\ ret' = [has_value |-> TRUE]
            /\ th' = [th EXCEPT ![t] = [IdleThread EXCEPT !.calls = th[t].calls,
                                                          !.pushed = th[t].pushed,
                                                          !.raced = th[t].raced]]
       ELSE LET cursor == th[t].stack[Len(th[t].stack)]
            IN  /\ th' = [th EXCEPT ![t].stack = Pop(@), ![t].cursor = cursor,
                                    ![t].tmp = heap[cursor].ndeps, ![t].pc = "store"]
                /\ UNCHANGED ret
    /\ UNCHANGED <<block_dep_map, lose_ends, heap, submitted, released, declared>>
    /\ UNCHANGED <<unmasked, peervars, loopvars>>

\* Line 109: the store of cursor->ndeps--.
SH_Store(t) ==
    /\ th[t].pc = "store"
    /\ heap' = [heap EXCEPT ![th[t].cursor].ndeps = Decrement(th[t].tmp)]
    /\ th' = [th EXCEPT ![t].pc = "check"]
    /\ UNCHANGED <<block_dep_map, lose_ends, submitted, released, declared, ret>>
    /\ UNCHANGED <<unmasked, peervars, loopvars>>

\* Lines 110-117: the test and, when it fails, result.push_back.
SH_Check(t) ==
    /\ th[t].pc = "check"
    /\ \E nd \in {Decrement(th[t].tmp), heap[th[t].cursor].ndeps} :
         IF nd > 0
         THEN /\ th' = [th EXCEPT ![t].pc = "loop"]
              /\ UNCHANGED released
         ELSE /\ th' = [th EXCEPT ![t].pc = "erase",
                                  ![t].result = Append(@, heap[th[t].cursor].block)]
              /\ released' = Append(released, heap[th[t].cursor].block)
    /\ UNCHANGED <<block_dep_map, lose_ends, heap, submitted, declared, ret>>
    /\ UNCHANGED <<unmasked, peervars, loopvars>>

\* SubmitHash reading deps of the released block without having erased
\* the block from block_dep_map.
SH_Erase_Skipped(t) ==
    /\ th[t].pc = "erase"
    /\ th' = [th EXCEPT ![t].pc = "push"]
    /\ UNCHANGED <<block_dep_map, lose_ends, heap, submitted, released, declared, ret>>
    /\ UNCHANGED <<unmasked, peervars, loopvars>>

\* Lines 121-123: under the lock, erase the released block.
SH_Erase(t) ==
    /\ th[t].pc = "erase"
    /\ block_dep_map' = MapErase(block_dep_map, heap[th[t].cursor].block)
    /\ th' = [th EXCEPT ![t].pc = "push"]
    /\ UNCHANGED <<lose_ends, heap, submitted, released, declared, ret>>
    /\ UNCHANGED <<unmasked, peervars, loopvars>>

\* Lines 127-129: push the dependents of the released block.
SH_PushDeps(t) ==
    /\ th[t].pc = "push"
    /\ th' = [th EXCEPT ![t].stack = @ \o heap[th[t].cursor].deps, ![t].pc = "loop",
                        ![t].pushed = @ \cup { <<th[t].cursor, e>> :
                                                  e \in Range(heap[th[t].cursor].deps) }]
    /\ UNCHANGED <<block_dep_map, lose_ends, heap, submitted, released, declared, ret>>
    /\ UNCHANGED <<unmasked, peervars, loopvars>>

NextConc ==
    \/ \E block \in Blocks, mask \in Masks : AddBlock(block, mask)
    \/ \E t \in Threads, hash \in Hashes : SH_Begin(t, hash)
    \/ \E t \in Threads : SH_Pop(t)
    \/ \E t \in Threads : SH_Store(t)
    \/ \E t \in Threads : SH_Check(t)
    \/ \E t \in Threads : SH_Erase(t)
    \/ \E t \in Threads : SH_PushDeps(t)

SpecConc == Init /\ [][NextConc]_vars

\* AddBlock (whole, it holds the lock from line 38 on) called while
\* SubmitHash calls are running: a parent declared missing was missing when
\* the caller looked, and may have been released by a running call since.
AddBlockRacing(block, mask) ==
    /\ block.hash \notin DOMAIN declared
    /\ mask # 0
    /\ Cardinality(DOMAIN heap) < MaxAdds
    /\ \A p \in Range(MissingSeq(block, mask)) :
            /\ p \notin submitted
            /\ p \in Range(released) => \E t \in Threads : th[t].pc # "idle"
    /\ LET r == AddBlockResult(block, mask)
       IN  /\ block_dep_map' = r.map
           /\ lose_ends' = r.lose
           /\ heap' = r.heap
           /\ declared' = MapPut(declared, block.hash, Range(MissingSeq(block, mask)))
           /\ th' = [t \in Threads |->
                       IF th[t].pc = "idle" THEN th[t]
                       ELSE [th[t] EXCEPT !.raced = @ \cup {NewDep(block.hash)}]]
    /\ UNCHANGED <<submitted, released, ret>>
    /\ UNCHANGED <<unmasked, peervars, loopvars>>

\* One thread in SubmitHash next to AddBlock calls that declare prev, or
\* tip and prev, missing.
NextRace ==
    \/ \E block \in Blocks, mask \in {P_MISSING, T_MISSING + P_MISSING} :
          AddBlockRacing(block, mask)
    \/ \E hash \in Hashes : SH_Begin(1, hash)
    \/ SH_Pop(1)
    \/ SH_Store(1)
    \/ SH_Check(1)
    \/ SH_Erase(1)
    \/ SH_PushDeps(1)

SpecRace == Init /\ [][NextRace]_vars

\* ============================================================ Peer Manager
\* Connection handles, and net addresses: 0 stands for a loopback address
\* (not routable), 1 for the seed, the others for ordinary nodes.
Conns == 1 .. MaxConns
TimedConns == 1 .. MaxTimed
RelayConns == 1 .. MaxRelay
Seeds == {1}
Addrs == 2 .. (MaxAddrs + 1)
NetAddresses == 0 .. (MaxAddrs + 1)

\* NetAddress::IsRoutable and AddressManager::IsSeedAddress.
IsRoutable(addr) == addr > 0
IsSeedAddress(addr) == addr \in Seeds

\* A call on a collaborator (DAG, MEMPOOL, a Peer, the AddressManager, the
\* ConnectionManager): the method, the object or address it is about, and
\* the argument (for Verify and ReceiveTx, what the call returns).
Call(op, to, arg) == [op |-> op, to |-> to, arg |-> arg]

\* The positions of calls of method op in a list of calls.
CallsOf(op, cs) == { i \in DOMAIN cs : cs[i].op = op }

\* peerMap_ is iterated in an order that is fixed while the map is not
\* modified; the model takes the ascending order of the handles.
RECURSIVE Ascending(_)
Ascending(S) ==
    IF S = {} THEN <<>>
    ELSE LET m == CHOOSE x \in S : \A y \in S : x <= y
         IN  <<m>> \o Ascending(S \ {m})

PeerOrder(pm) == Ascending(DOMAIN pm)

\* Lists of an ADDR message, up to one entry above the cap; the entries are
\* taken in non-decreasing order.
AddressLists ==
    { l \in UNION { [1 .. n -> NetAddresses] : n \in 0 .. (kMaxAddressSize + 1) } :
        \A i \in 1 .. (Len(l) - 1) : l[i] <= l[i + 1] }

\* The messages ReceiveMessage can hand over: the connection, the type, what
\* Transaction::Verify returns for a TX, and the list of an ADDR.
MessagesOf(types) ==
    { m \in [from : Conns, type : types, verify : BOOLEAN, addressList : AddressLists] :
        /\ m.type # "TX" => m.verify
        /\ m.type # "ADDR" => m.addressList = <<>> }

\* The outcomes of the uniform draws of RelayAddressMsg over n peers.
Draws(n) == IF n = 0 THEN {<<>>} ELSE [1 .. kMaxPeersToRelayAddr -> 0 .. (n - 1)]

\* -------------------------------------------------- connection callbacks
\* A Peer constructed as if its handshake were already over.
CreatePeer_FullyConnected(address, inbound) ==
    [address |-> address, isSeed |-> IsSeedAddress(address), isInbound |-> inbound,
     valid |-> TRUE, isFullyConnected |-> TRUE, connected_time |-> now,
     lastPingTime |-> now, nPingFailed |-> 0, syncTimeout |-> FALSE,
     isSyncAvailable |-> FALSE, last_bundle_ms_time |-> 0]

\* CreatePeer: the Peer of a new connection, not yet fully connected.
CreatePeer(address, inbound) ==
    [address |-> address, isSeed |-> IsSeedAddress(address), isInbound |-> inbound,
     valid |-> TRUE, isFullyConnected |-> FALSE, connected_time |-> now,
     lastPingTime |-> now, nPingFailed |-> 0, syncTimeout |-> FALSE,
     isSyncAvailable |-> FALSE, last_bundle_ms_time |-> 0]

\* Peer::Disconnect closes the transport, which makes the peer invalid.
Disconnect(pm, c) == [pm EXCEPT ![c].valid = FALSE]

OnConnectionCreated(c, address, inbound) ==
    /\ c \notin DOMAIN peerMap
    /\ peerMap' = MapPut(peerMap, c, CreatePeer(address, inbound))
    /\ calls' = IF inbound THEN <<>> ELSE <<Call("SendVersion", c, <<>>)>>
    /\ UNCHANGED <<initial_sync, now, outbound, lastTry, sched, num_tries, lastDial>>
    /\ UNCHANGED <<obcvars, loopvars>>

\* The transport of connection c closes: its peer is no longer valid.
ConnectionLost(c) ==
    /\ c \in DOMAIN peerMap
    /\ peerMap[c].valid
    /\ peerMap' = [peerMap EXCEPT ![c].valid = FALSE]
    /\ calls' = <<>>
    /\ UNCHANGED <<initial_sync, now, outbound, lastTry, sched, num_tries, lastDial>>
    /\ UNCHANGED <<obcvars, loopvars>>

\* RemovePeer, run by the thread OnConnectionClosed starts for a closed
\* connection.
RemovePeer(c) ==
    /\ c \in DOMAIN peerMap
    /\ ~peerMap[c].valid
    /\ peerMap' = MapErase(peerMap, c)
    /\ calls' = <<>>
    /\ UNCHANGED <<initial_sync, now, outbound, lastTry, sched, num_tries, lastDial>>
    /\ UNCHANGED <<obcvars, loopvars>>

\* InitialSync, lines 332-336: the milestone head is recent enough.
InitialSyncDone ==
    /\ initial_sync
    /\ initial_sync' = FALSE
    /\ calls' = <<>>
    /\ UNCHANGED <<peerMap, now, outbound, lastTry, sched, num_tries, lastDial>>
    /\ UNCHANGED <<obcvars, loopvars>>

\* ----------------------------------------------------------------- relays
\* RelayTransaction: the calls it makes, msg_from being the peer of handle from.
RelayTransaction_ToAll(pm, from) ==
    [i \in 1 .. Len(PeerOrder(pm)) |-> Call("SendMessage", PeerOrder(pm)[i], <<>>)]

RelayTransaction(pm, from) ==
    LET NotSender(c) == c # from
        to == SelectSeq(PeerOrder(pm), NotSender)
    IN  [i \in 1 .. Len(to) |-> Call("SendMessage", to[i], <<>>)]

\* RelayBlock: the calls it makes, msg_from being the peer of handle from.
RelayBlock(pm, from) ==
    LET NotSender(c) == c # from
        to == SelectSeq(PeerOrder(pm), NotSender)
    IN  [i \in 1 .. Len(to) |-> Call("SendMessage", to[i], <<"BLOCK">>)]

\* The for loop of RelayAddressMsg over the draws that are left.
RECURSIVE RelayDraws(_, _, _, _, _)
RelayDraws(pm, list, from, draws, selectedOffset) ==
    IF draws = <<>> THEN <<>>
    ELSE LET offset == Head(draws)
             peer   == PeerOrder(pm)[offset + 1]
         IN  IF offset \in selectedOffset
             THEN RelayDraws(pm, list, from, Tail(draws), selectedOffset)
             ELSE (IF peer # from THEN <<Call("RelayAddrMsg", peer, list)>> ELSE <<>>)
                  \o RelayDraws(pm, list, from, Tail(draws), selectedOffset \cup {offset})

\* RelayAddressMsg not remembering the offsets it has drawn.
RelayAddressMsg_RepeatedDraws(pm, list, from, draws) ==
    IF DOMAIN pm = {} THEN <<>>
    ELSE LET NotSender(c) == c # from
             drawn == [i \in DOMAIN draws |-> PeerOrder(pm)[draws[i] + 1]]
             to    == SelectSeq(drawn, NotSender)
         IN  [i \in DOMAIN to |-> Call("RelayAddrMsg", to[i], list)]

RelayAddressMsg(pm, list, from, draws) ==
    IF DOMAIN pm = {} THEN <<>> ELSE RelayDraws(pm, list, from, draws, {})

\* The relays called one at a time by the DAG, the miner or the handlers;
\* the first entry of calls is the call itself.  from is the handle of
\* msg_from: 0, or a handle that is not in peerMap, for a source that is
\* not a peer of the map.
CallRelayBlock(from) ==
    /\ calls' = <<Call("RelayBlock", from, <<>>)>> \o RelayBlock(peerMap, from)
    /\ UNCHANGED <<peerMap, initial_sync, now, outbound, lastTry, sched, num_tries, lastDial>>
    /\ UNCHANGED <<obcvars, loopvars>>

CallRelayTransaction(from) ==
    /\ calls' = <<Call("RelayTransaction", from, <<>>)>> \o RelayTransaction(peerMap, from)
    /\ UNCHANGED <<peerMap, initial_sync, now, outbound, lastTry, sched, num_tries, lastDial>>
    /\ UNCHANGED <<obcvars, loopvars>>

CallRelayAddressMsg(list, from, draws) ==
    /\ calls' = <<Call("RelayAddressMsg", from, list)>>
                 \o RelayAddressMsg(peerMap, list, from, draws)
    /\ UNCHANGED <<peerMap, initial_sync, now, outbound, lastTry, sched, num_tries, lastDial>>
    /\ UNCHANGED <<obcvars, loopvars>>

\* The lists ProcessAddressMessage hands to RelayAddressMsg.
RelayLists ==
    { SelectSeq(l, IsRoutable) : l \in { m \in AddressLists : Len(m) <= kMaxAddressSize } }
        \ {<<>>}

\* ---------------------------------------------------------- HandleMessage
\* AddressManager::AddNewAddress: an address not known yet enters the book
\* as never tried.
AddNewAddress(book, addr) ==
    IF addr \in DOMAIN book THEN book ELSE MapPut(book, addr, 0)

RECURSIVE AddAll(_, _)
AddAll(book, list) ==
    IF list = <<>> THEN book ELSE AddAll(AddNewAddress(book, Head(list)), Tail(list))

ProcessBlock(from) == <<Call("AddNewBlock", from, <<>>)>>

\* ProcessTransaction relaying whatever MEMPOOL says.
ProcessTransaction_IgnoresMempool(pm, msg, accept) ==
    IF ~msg.verify
    THEN <<Call("Verify", msg.from, <<msg.verify>>)>>
    ELSE <<Call("Verify", msg.from, <<msg.verify>>), Call("ReceiveTx", msg.from, <<accept>>)>>
         \o RelayTransaction(pm, msg.from)

\* ProcessTransaction: the calls it makes; accept is what MEMPOOL answers.
ProcessTransaction(pm, msg, accept) ==
    IF ~msg.verify
    THEN <<Call("Verify", msg.from, <<msg.verify>>)>>
    ELSE <<Call("Verify", msg.from, <<msg.verify>>), Call("ReceiveTx", msg.from, <<accept>>)>>
         \o (IF accept THEN RelayTransaction(pm, msg.from) ELSE <<>>)

\* ProcessAddressMessage disconnecting the seed before it saves and relays.
ProcessAddressMessage_DropsSeedFirst(pm, book, msg, draws) ==
    LET list         == msg.addressList
        relayMessage == IF Len(list) > kMaxAddressSize THEN <<>>
                        ELSE SelectSeq(list, IsRoutable)
        adds         == [i \in 1 .. Len(relayMessage) |->
                            Call("AddNewAddress", relayMessage[i], <<>>)]
        relay        == IF relayMessage = <<>> THEN <<>>
                        ELSE RelayAddressMsg(pm, relayMessage, msg.from, draws)
        drop         == IF pm[msg.from].isSeed
                        THEN <<Call("Disconnect", msg.from, <<>>)>> ELSE <<>>
    IN  [calls   |-> drop \o adds \o relay,
         lastTry |-> AddAll(book, relayMessage),
         peerMap |-> IF pm[msg.from].isSeed THEN Disconnect(pm, msg.from) ELSE pm]

\* ProcessAddressMessage relaying the list as it was received.
ProcessAddressMessage_RelaysReceivedList(pm, book, msg, draws) ==
    LET list         == msg.addressList
        relayMessage == IF Len(list) > kMaxAddressSize THEN <<>>
                        ELSE SelectSeq(list, IsRoutable)
        adds         == [i \in 1 .. Len(relayMessage) |->
                            Call("AddNewAddress", relayMessage[i], <<>>)]
        relay        == IF relayMessage = <<>> THEN <<>>
                        ELSE RelayAddressMsg(pm, list, msg.from, draws)
        drop         == IF pm[msg.from].isSeed
                        THEN <<Call("Disconnect", msg.from, <<>>)>> ELSE <<>>
    IN  [calls   |-> adds \o relay \o drop,
         lastTry |-> AddAll(book, relayMessage),
         peerMap |-> IF pm[msg.from].isSeed THEN Disconnect(pm, msg.from) ELSE pm]

\* ProcessAddressMessage: the calls it makes, the address book and the peers
\* it leaves.
ProcessAddressMessage(pm, book, msg, draws) ==
    LET list         == msg.addressList
        relayMessage == IF Len(list) > kMaxAddressSize THEN <<>>
                        ELSE SelectSeq(list, IsRoutable)
        adds         == [i \in 1 .. Len(relayMessage) |->
                            Call("AddNewAddress", relayMessage[i], <<>>)]
        relay        == IF relayMessage = <<>> THEN <<>>
                        ELSE RelayAddressMsg(pm, relayMessage, msg.from, draws)
        drop         == IF pm[msg.from].isSeed
                        THEN <<Call("Disconnect", msg.from, <<>>)>> ELSE <<>>
    IN  [calls   |-> adds \o relay \o drop,
         lastTry |-> AddAll(book, relayMessage),
         peerMap |-> IF pm[msg.from].isSeed THEN Disconnect(pm, msg.from) ELSE pm]

\* What becomes of a message that passed the two tests of HandleMessage.
Dispatch(msg, accept, draws) ==
    CASE msg.type = "BLOCK" ->
            [calls |-> ProcessBlock(msg.from), lastTry |-> lastTry, peerMap |-> peerMap]
      [] msg.type = "TX" ->
            [calls |-> ProcessTransaction(peerMap, msg, accept),
             lastTry |-> lastTry, peerMap |-> peerMap]
      [] msg.type = "ADDR" ->
            ProcessAddressMessage(peerMap, lastTry, msg, draws)
      [] OTHER ->
            [calls |-> <<Call("ProcessMessage", msg.from, <<>>)>>,
             lastTry |-> lastTry, peerMap |-> peerMap]

\* HandleMessage forwarding BLOCK messages also during the initial sync.
HandleMessage_NoSyncTest(msg, accept, draws) ==
    LET received == <<Call("ReceiveMessage", msg.from, msg)>>
    IN  /\ IF msg.from \notin DOMAIN peerMap \/ ~peerMap[msg.from].valid
           THEN /\ calls' = received
                /\ UNCHANGED <<peerMap, lastTry>>
           ELSE LET r == Dispatch(msg, accept, draws)
                IN  /\ calls' = received \o r.calls
                    /\ lastTry' = r.lastTry
                    /\ peerMap' = r.peerMap
        /\ UNCHANGED <<initial_sync, now, outbound, sched, num_tries, lastDial>>
        /\ UNCHANGED <<obcvars, loopvars>>

\* HandleMessage testing only that GetPeer finds a peer.
HandleMessage_NoValidTest(msg, accept, draws) ==
    LET received == <<Call("ReceiveMessage", msg.from, msg)>>
    IN  /\ IF initial_sync /\ msg.type = "BLOCK"
           THEN /\ calls' = received
                /\ UNCHANGED <<peerMap, lastTry>>
           ELSE IF msg.from \notin DOMAIN peerMap
           THEN /\ calls' = received
                /\ UNCHANGED <<peerMap, lastTry>>
           ELSE LET r == Dispatch(msg, accept, draws)
                IN  /\ calls' = received \o r.calls
                    /\ lastTry' = r.lastTry
                    /\ peerMap' = r.peerMap
        /\ UNCHANGED <<initial_sync, now, outbound, sched, num_tries, lastDial>>
        /\ UNCHANGED <<obcvars, loopvars>>

\* One pass of the loop of HandleMessage, ReceiveMessage handing over msg.
HandleMessage(msg, accept, draws) ==
    LET received == <<Call("ReceiveMessage", msg.from, msg)>>
    IN  /\ IF initial_sync /\ msg.type = "BLOCK"
           THEN /\ calls' = received
                /\ UNCHANGED <<peerMap, lastTry>>
           ELSE IF msg.from \notin DOMAIN peerMap \/ ~peerMap[msg.from].valid
           THEN /\ calls' = received
                /\ UNCHANGED <<peerMap, lastTry>>
           ELSE LET r == Dispatch(msg, accept, draws)
                IN  /\ calls' = received \o r.calls
                    /\ lastTry' = r.lastTry
                    /\ peerMap' = r.peerMap
        /\ UNCHANGED <<initial_sync, now, outbound, sched, num_tries, lastDial>>
        /\ UNCHANGED <<obcvars, loopvars>>

\* What MEMPOOL answers and what RelayAddressMsg draws, where it matters.
AcceptsFor(msg) == IF msg.type = "TX" /\ msg.verify THEN BOOLEAN ELSE {FALSE}
DrawsFor(msg) == IF msg.type = "ADDR" THEN Draws(Cardinality(DOMAIN peerMap)) ELSE {<<>>}

NextMsg ==
    \/ \E c \in Conns, a \in Seeds \cup Addrs : OnConnectionCreated(c, a, TRUE)
    \/ \E c \in Conns : ConnectionLost(c)
    \/ \E c \in Conns : RemovePeer(c)
    \/ InitialSyncDone
    \/ \E msg \in MessagesOf({"BLOCK", "TX", "OTHER"}) :
          \E accept \in AcceptsFor(msg) : HandleMessage(msg, accept, <<>>)

SpecMsg == Init /\ [][NextMsg]_vars

NextAddr ==
    \/ \E c \in Conns, a \in Seeds \cup Addrs : OnConnectionCreated(c, a, TRUE)
    \/ \E c \in Conns : ConnectionLost(c)
    \/ \E c \in Conns : RemovePeer(c)
    \/ \E msg \in MessagesOf({"ADDR"}) :
          \E draws \in DrawsFor(msg) : HandleMessage(msg, FALSE, draws)

SpecAddr == Init /\ [][NextAddr]_vars

\* The pass of HandleMessage, or the call of a relay, is over: its calls are
\* forgotten.
NextPass ==
    /\ calls # <<>>
    /\ calls' = <<>>
    /\ UNCHANGED <<peerMap, initial_sync, now, outbound, lastTry, sched, num_tries, lastDial>>
    /\ UNCHANGED <<obcvars, loopvars>>

\* The draws of RelayAddressMsg for the messages that get as far as to it.
DrawsWhenRelayed(msg) ==
    IF /\ msg.type = "ADDR"
       /\ Len(msg.addressList) <= kMaxAddressSize
       /\ SelectSeq(msg.addressList, IsRoutable) # <<>>
       /\ msg.from \in DOMAIN peerMap
    THEN Draws(Cardinality(DOMAIN peerMap))
    ELSE {<<>>}

\* SpecAddr with the passes of HandleMessage told apart: what happens to
\* the connections happens between two passes.
NextBook ==
    \/ /\ calls = <<>>
       /\ \E c \in Conns, a \in Seeds \cup Addrs : OnConnectionCreated(c, a, TRUE)
    \/ /\ calls = <<>>
       /\ \E c \in Conns : ConnectionLost(c)
    \/ /\ calls = <<>>
       /\ \E c \in Conns : RemovePeer(c)
    \/ /\ calls = <<>>
       /\ \E msg \in MessagesOf({"ADDR"}) :
             \E draws \in DrawsWhenRelayed(msg) : HandleMessage(msg, FALSE, draws)
    \/ NextPass

SpecBook == Init /\ [][NextBook]_vars

\* The events of SpecMsg and ADDR messages of at most one address, the log
\* of calls cleared between two events.
NextAny ==
    \/ /\ calls = <<>>
       /\ NextMsg
    \/ /\ calls = <<>>
       /\ \E msg \in MessagesOf({"ADDR"}) :
             /\ Len(msg.addressList) <= 1
             /\ \E draws \in DrawsWhenRelayed(msg) : HandleMessage(msg, FALSE, draws)
    \/ NextPass

SpecAny == Init /\ [][NextAny]_vars

\* ------------------------------------------------------------ CheckTimeout
\* The tests of CheckTimeout on a valid peer, now being t: ping and sync
\* timeout of a fully connected peer, handshake timeout of the others.
\* TimedOut without the test of IsSyncTimeout.
TimedOut_NoSyncTest(peer, t) ==
    IF peer.isFullyConnected
    THEN \/ peer.lastPingTime + kPingWaitTimeout < t
         \/ peer.nPingFailed > kMaxPingFailures
    ELSE peer.connected_time + kConnectionSetupTimeout < t

\* TimedOut with the handshake deadline tested by <=.
TimedOut_SetupDeadlineIncluded(peer, t) ==
    IF peer.isFullyConnected
    THEN \/ peer.lastPingTime + kPingWaitTimeout < t
         \/ peer.nPingFailed > kMaxPingFailures
         \/ peer.syncTimeout
    ELSE peer.connected_time + kConnectionSetupTimeout <= t

TimedOut(peer, t) ==
    IF peer.isFullyConnected
    THEN \/ peer.lastPingTime + kPingWaitTimeout < t
         \/ peer.nPingFailed > kMaxPingFailures
         \/ peer.syncTimeout
    ELSE peer.connected_time + kConnectionSetupTimeout < t

\* Sweep calling Disconnect on the invalid peers it erases.
RECURSIVE Sweep_DisconnectsInvalid(_, _, _)
Sweep_DisconnectsInvalid(st, order, t) ==
    IF order = <<>> THEN st
    ELSE LET c    == Head(order)
             peer == st.peerMap[c]
         IN  IF ~peer.valid \/ TimedOut(peer, t)
             THEN Sweep_DisconnectsInvalid(
                      [peerMap |-> MapErase(st.peerMap, c),
                       calls   |-> st.calls \o <<Call("Disconnect", c, <<>>),
                                                  Call("erase", c, <<>>)>>],
                      Tail(order), t)
             ELSE Sweep_DisconnectsInvalid(st, Tail(order), t)

\* Sweep leaving the invalid peers in the map.
RECURSIVE Sweep_KeepsInvalid(_, _, _)
Sweep_KeepsInvalid(st, order, t) ==
    IF order = <<>> THEN st
    ELSE LET c    == Head(order)
             peer == st.peerMap[c]
         IN  IF peer.valid /\ TimedOut(peer, t)
             THEN Sweep_KeepsInvalid(
                      [peerMap |-> MapErase(st.peerMap, c),
                       calls   |-> st.calls \o <<Call("Disconnect", c, <<>>),
                                                  Call("erase", c, <<>>)>>],
                      Tail(order), t)
             ELSE Sweep_KeepsInvalid(st, Tail(order), t)

\* The for loop of CheckTimeout over the handles that are left: st holds the
\* map and the calls made so far, the first of which is the time(nullptr)
\* of line 292; the erase of an entry of peerMap_ is one of the calls.
RECURSIVE Sweep(_, _, _)
Sweep(st, order, t) ==
    IF order = <<>> THEN st
    ELSE LET c    == Head(order)
             peer == st.peerMap[c]
         IN  IF ~peer.valid
             THEN Sweep([peerMap |-> MapErase(st.peerMap, c),
                         calls   |-> Append(st.calls, Call("erase", c, <<>>))],
                        Tail(order), t)
             ELSE IF TimedOut(peer, t)
             THEN Sweep([peerMap |-> MapErase(st.peerMap, c),
                         calls   |-> st.calls \o <<Call("Disconnect", c, <<>>),
                                                    Call("erase", c, <<>>)>>],
                        Tail(order), t)
             ELSE Sweep(st, Tail(order), t)

CheckTimeout ==
    LET r == Sweep([peerMap |-> peerMap, calls |-> <<Call("time", 0, <<now>>)>>],
                   PeerOrder(peerMap), now)
    IN  /\ peerMap' = r.peerMap
        /\ calls' = r.calls
        /\ UNCHANGED <<initial_sync, now, outbound, lastTry, sched, num_tries, lastDial>>
        /\ UNCHANGED <<obcvars, loopvars>>

\* ----------------------------------------- what peers and the clock do
\* The version handshake of the peer of c completes.
VersionAck(c) ==
    /\ c \in DOMAIN peerMap
    /\ peerMap[c].valid /\ ~peerMap[c].isFullyConnected
    /\ peerMap' = [peerMap EXCEPT ![c].isFullyConnected = TRUE]
    /\ calls' = <<>>
    /\ UNCHANGED <<initial_sync, now, outbound, lastTry, sched, num_tries, lastDial>>
    /\ UNCHANGED <<obcvars, loopvars>>

\* A pong of the peer of c arrives.
Pong(c) ==
    /\ c \in DOMAIN peerMap
    /\ peerMap[c].valid /\ peerMap[c].isFullyConnected
    /\ peerMap' = [peerMap EXCEPT ![c].lastPingTime = now, ![c].nPingFailed = 0]
    /\ calls' = <<>>
    /\ UNCHANGED <<initial_sync, now, outbound, lastTry, sched, num_tries, lastDial>>
    /\ UNCHANGED <<obcvars, loopvars>>

\* A ping of the peer of c stays without pong.
PingFailed(c) ==
    /\ c \in DOMAIN peerMap
    /\ peerMap[c].valid /\ peerMap[c].isFullyConnected
    /\ peerMap[c].nPingFailed <= kMaxPingFailures
    /\ peerMap' = [peerMap EXCEPT ![c].nPingFailed = @ + 1]
    /\ calls' = <<>>
    /\ UNCHANGED <<initial_sync, now, outbound, lastTry, sched, num_tries, lastDial>>
    /\ UNCHANGED <<obcvars, loopvars>>

\* The peer of c stops answering the sync requests: IsSyncTimeout() holds.
SyncStalls(c) ==
    /\ c \in DOMAIN peerMap
    /\ peerMap[c].valid /\ peerMap[c].isFullyConnected
    /\ ~peerMap[c].syncTimeout
    /\ peerMap' = [peerMap EXCEPT ![c].syncTimeout = TRUE]
    /\ calls' = <<>>
    /\ UNCHANGED <<initial_sync, now, outbound, lastTry, sched, num_tries, lastDial>>
    /\ UNCHANGED <<obcvars, loopvars>>

\* d seconds pass.
Tick(d) ==
    /\ now + d <= StartTime + MaxElapsed
    /\ now' = now + d
    /\ calls' = <<>>
    /\ UNCHANGED <<peerMap, initial_sync, outbound, lastTry, sched, num_tries, lastDial>>
    /\ UNCHANGED <<obcvars, loopvars>>

NextSweep ==
    \/ \E c \in TimedConns, a \in Addrs : OnConnectionCreated(c, a, TRUE)
    \/ \E c \in TimedConns : VersionAck(c)
    \/ \E c \in TimedConns : Pong(c)
    \/ \E c \in TimedConns : PingFailed(c)
    \/ \E c \in TimedConns : SyncStalls(c)
    \/ Tick(TimeStep)
    \/ CheckTimeout

SpecSweep == Init /\ [][NextSweep]_vars

\* SpecSweep with transports that close by themselves.
NextLost ==
    \/ NextSweep
    \/ \E c \in TimedConns : ConnectionLost(c)

SpecLost == Init /\ [][NextLost]_vars

\* ------------------------------------------------------- the relays alone
\* Peers connect and complete their handshake; between two events a relay
\* is called and its calls are looked at.
NextRelay ==
    \/ /\ calls = <<>>
       /\ \E c \in RelayConns, a \in Addrs : OnConnectionCreated(c, a, TRUE)
    \/ /\ calls = <<>>
       /\ \E c \in RelayConns : VersionAck(c)
    \/ /\ calls = <<>>
       /\ \E from \in {0} \cup RelayConns : CallRelayBlock(from)
    \/ /\ calls = <<>>
       /\ \E from \in {0} \cup RelayConns : CallRelayTransaction(from)
    \/ /\ calls = <<>>
       /\ \E list \in RelayLists, from \in {0} \cup RelayConns :
             \E draws \in Draws(Cardinality(DOMAIN peerMap)) :
                 CallRelayAddressMsg(list, from, draws)
    \/ NextPass

SpecRelay == Init /\ [][NextRelay]_vars

\* ------------------------------------------------------------ ScheduleTask
\* One pass of the loop of ScheduleTask: scheduler_.Loop() runs CheckTimeout
\* when its period has passed, then the thread sleeps for one second.
ScheduleTask ==
    /\ now + 1 <= StartTime + MaxElapsed
    /\ IF now >= sched
       THEN LET r == Sweep([peerMap |-> peerMap, calls |-> <<Call("time", 0, <<now>>)>>],
                            PeerOrder(peerMap), now)
            IN  /\ peerMap' = r.peerMap
                /\ calls' = r.calls
                /\ sched' = now + kCheckTimeoutInterval
       ELSE /\ calls' = <<>>
            /\ UNCHANGED <<peerMap, sched>>
    /\ now' = now + 1
    /\ UNCHANGED <<initial_sync, outbound, lastTry, num_tries, lastDial>>
    /\ UNCHANGED <<obcvars, loopvars>>

\* Peers that connect within the first period of CheckTimeout (the sweeps
\* are periodic, so every offset between a connection and the sweeps
\* occurs) and never complete the handshake.
NextSched ==
    \/ \E c \in TimedConns, a \in Addrs :
          /\ now < StartTime + kCheckTimeoutInterval
          /\ OnConnectionCreated(c, a, TRUE)
    \/ ScheduleTask

SpecSched == Init /\ [][NextSched]_vars

\* ---------------------------------------------------------- OpenConnection
\* HasConnectedTo: some peer of peerMap_ has the address (the address_me_ of
\* a peer's version message is taken to be the peer's own address).
HasConnectedTo(pm, address) == \E c \in DOMAIN pm : pm[c].address = address

\* An optional address is <<>> or <<address>>.  What GetOneAddress(false)
\* returns pass after pass of the inner loop: a known address k times over,
\* then any known address or none.
Candidates(book) ==
    { [i \in 1 .. (k + 1) |-> IF i <= k THEN <<a>> ELSE x] :
        a \in DOMAIN book, k \in {0, MaxTries - 1, MaxTries},
        x \in {<<>>} \cup { <<b>> : b \in DOMAIN book } }
    \cup {<< <<>> >>}

\* The candidate GetOneAddress returns in pass i of the inner loop.
CandidateAt(cands, i) == IF i <= Len(cands) THEN cands[i] ELSE <<>>

\* TryLoop trying an address again whatever its last try.
TryLoop_NoLastTryTest(cands, pm, book, t) ==
    LET Breaks(i) ==
            LET try_to_connect == CandidateAt(cands, i)
            IN  \/ try_to_connect = <<>>
                \/ ~HasConnectedTo(pm, try_to_connect[1])
        breaks == { i \in 1 .. MaxTries : Breaks(i) }
        last   == CHOOSE i \in breaks : \A j \in breaks : i <= j
    IN  IF breaks = {}
        THEN [num_tries |-> MaxTries, dial |-> <<>>]
        ELSE [num_tries |-> last, dial |-> CandidateAt(cands, last)]

\* The inner loop of OpenConnection (lines 259-286), t being what
\* time(nullptr) returns.  A pass breaks out of the loop when there is no
\* candidate (line 263) or when the candidate is dialed (line 285), and
\* continues when the candidate is connected already (line 268) or was
\* tried less than RetryInterval ago (line 278); the loop ends with the
\* first pass that breaks, or after MaxTries passes.  The result is
\* num_tries and the address dialed, if any.
TryLoop(cands, pm, book, t) ==
    LET Breaks(i) ==
            LET try_to_connect == CandidateAt(cands, i)
            IN  \/ try_to_connect = <<>>
                \/ /\ ~HasConnectedTo(pm, try_to_connect[1])
                   /\ ~(t - book[try_to_connect[1]] < RetryInterval)
        breaks == { i \in 1 .. MaxTries : Breaks(i) }
        last   == CHOOSE i \in breaks : \A j \in breaks : i <= j
    IN  IF breaks = {}
        THEN [num_tries |-> MaxTries, dial |-> <<>>]
        ELSE [num_tries |-> last, dial |-> CandidateAt(cands, last)]

\* One pass of the outer loop of OpenConnection: the thread sleeps d
\* seconds (one, or more when it is held up), GetOneSeed returns seed,
\* GetOneAddress returns the candidates cands, and Connect returns ok.seed
\* for the seed and ok.addr for the address; a Connect that succeeds is one
\* more outbound connection.
OpenConnection(d, seed, cands, ok) ==
    LET t   == now + d
        fin == TryLoop(cands, peerMap, lastTry, t)
    IN  /\ d >= 1
        /\ t <= StartTime + MaxElapsed
        /\ now' = t
        /\ IF outbound > kMax_outbound
           THEN /\ calls' = <<>>
                /\ UNCHANGED <<outbound, lastTry, num_tries, lastDial>>
           ELSE /\ calls' =
                     (IF seed # <<>> THEN <<Call("Connect", seed[1], <<"seed">>)>> ELSE <<>>)
                     \o (IF fin.dial # <<>>
                         THEN <<Call("Connect", fin.dial[1], <<"address">>)>> ELSE <<>>)
                /\ outbound' = outbound
                                + (IF seed # <<>> /\ ok.seed THEN 1 ELSE 0)
                                + (IF fin.dial # <<>> /\ ok.addr THEN 1 ELSE 0)
                /\ num_tries' = fin.num_tries
                /\ IF fin.dial # <<>>
                   THEN /\ lastTry' = [lastTry EXCEPT ![fin.dial[1]] = t]
                        /\ lastDial' = MapPut(lastDial, fin.dial[1], t)
                   ELSE UNCHANGED <<lastTry, lastDial>>
        /\ UNCHANGED <<peerMap, initial_sync, sched>>
        /\ UNCHANGED <<obcvars, loopvars>>

\* What GetOneSeed can return.
SeedChoices == {<<>>} \cup { <<s>> : s \in Seeds }

\* The address book learns the address of an ordinary node.
LearnAddress(a) ==
    /\ a \notin DOMAIN lastTry
    /\ lastTry' = AddNewAddress(lastTry, a)
    /\ calls' = <<>>
    /\ UNCHANGED <<peerMap, initial_sync, now, outbound, sched, num_tries, lastDial>>
    /\ UNCHANGED <<obcvars, loopvars>>

\* An outbound connection closes.
OutboundClosed ==
    /\ outbound > 0
    /\ outbound' = outbound - 1
    /\ calls' = <<>>
    /\ UNCHANGED <<peerMap, initial_sync, now, lastTry, sched, num_tries, lastDial>>
    /\ UNCHANGED <<obcvars, loopvars>>

\* The dialer with an address book, peers that connect to the node by
\* themselves, a clock read by the minute, and dials that all fail.
NextDial ==
    \/ \E a \in Addrs : LearnAddress(a)
    \/ \E c \in TimedConns, a \in Addrs : OnConnectionCreated(c, a, TRUE)
    \/ \E seed \in SeedChoices, cands \in Candidates(lastTry) :
          OpenConnection(TimeStep, seed, cands, [seed |-> FALSE, addr |-> FALSE])

SpecDial == Init /\ [][NextDial]_vars

\* The dialer with seeds only, a pass each second, and dials that succeed
\* or fail.
NextOut ==
    \/ \E seed \in SeedChoices, ok \in [seed : BOOLEAN, addr : {FALSE}] :
          OpenConnection(1, seed, << <<>> >>, ok)
    \/ OutboundClosed

SpecOut == Init /\ [][NextOut]_vars

\* ------------------------------------------------------------- InitialSync
\* Peer::IsVaild of a peer InitialSync still points to: a peer that is no
\* longer in peerMap has been closed.
PeerValid(pm, c) == c \in DOMAIN pm /\ pm[c].valid

\* GetSyncPeer: the first peer of the map that is valid, fully connected
\* and available for sync; 0 for nullptr.
GetSyncPeer(pm) ==
    LET fit == { c \in DOMAIN pm :
                   pm[c].valid /\ pm[c].isFullyConnected /\ pm[c].isSyncAvailable }
    IN  IF fit = {} THEN 0 ELSE CHOOSE c \in fit : \A b \in fit : c <= b

\* The test of line 332 with a milestone head strictly younger only.
Synced_Strictly(headTime, t) == headTime > t - kSyncTimeThreshold

\* The test of line 332: the milestone head is recent enough.
Synced(headTime, t) == headTime >= t - kSyncTimeThreshold

\* The test of line 349 never finding a stall.
Stalled_Never(peer, old) == FALSE

\* The test of lines 349 and 358: no bundle since the last stall check.
Stalled(peer, old) == peer.last_bundle_ms_time = old

\* The worker loops never looking at interrupt_.
LoopGoesOn_Always(flag) == TRUE

\* The test of the worker loops, while (!interrupt_).
LoopGoesOn(flag) == ~flag

\* One pass of the loop of InitialSync, GetMilestoneHead returning a head
\* of time headTime and IsDownloadingEmpty returning downloadingEmpty.  The
\* sleeps of the pass are the Ticks around it.
InitialSync(headTime, downloadingEmpty) ==
    LET head == <<Call("GetMilestoneHead", 0, <<headTime>>)>>
        peer == IF initial_sync_peer = 0 \/ ~PeerValid(peerMap, initial_sync_peer)
                THEN GetSyncPeer(peerMap) ELSE initial_sync_peer
        armed == IF next = <<>> THEN now + kCheckSyncInterval ELSE next[1]
        check == now > armed
        start == IF downloadingEmpty THEN <<Call("StartSync", peer, <<>>)>> ELSE <<>>
    IN  /\ pc["InitialSync"] = "test"
        /\ LoopGoesOn(interrupt)
        /\ IF Synced(headTime, now)
           THEN /\ initial_sync' = FALSE
                /\ initial_sync_peer' = 0
                /\ pc' = [pc EXCEPT !["InitialSync"] = "done"]
                /\ calls' = head
                /\ UNCHANGED <<peerMap, next, old_last_bundle_ms_time, lastCheck>>
           ELSE IF peer = 0
           THEN /\ initial_sync_peer' = 0
                /\ calls' = head
                /\ UNCHANGED <<peerMap, initial_sync, pc, next, old_last_bundle_ms_time,
                               lastCheck>>
           ELSE /\ initial_sync_peer' = peer
                /\ next' = IF check THEN <<now + kCheckSyncInterval>> ELSE <<armed>>
                /\ lastCheck' = IF check THEN <<peer, peerMap[peer].last_bundle_ms_time>>
                                ELSE lastCheck
                /\ IF check /\ Stalled(peerMap[peer], old_last_bundle_ms_time)
                   THEN /\ calls' = head \o <<Call("Disconnect", peer, <<>>)>>
                        /\ peerMap' = Disconnect(peerMap, peer)
                        /\ UNCHANGED old_last_bundle_ms_time
                   ELSE /\ old_last_bundle_ms_time' =
                              IF check THEN peerMap[peer].last_bundle_ms_time
                              ELSE old_last_bundle_ms_time
                        /\ calls' = head \o start
                        /\ UNCHANGED peerMap
                /\ UNCHANGED <<initial_sync, pc>>
        /\ UNCHANGED <<now, outbound, lastTry, sched, num_tries, lastDial>>
        /\ UNCHANGED <<interrupt, quit, stop, lockvars, mapvars>>
        /\ UNCHANGED obcvars

\* The peer of c reports that it can serve a sync.
SyncAvailable(c) ==
    /\ c \in DOMAIN peerMap
    /\ peerMap[c].valid /\ peerMap[c].isFullyConnected /\ ~peerMap[c].isSyncAvailable
    /\ peerMap' = [peerMap EXCEPT ![c].isSyncAvailable = TRUE]
    /\ calls' = <<>>
    /\ UNCHANGED <<initial_sync, now, outbound, lastTry, sched, num_tries, lastDial>>
    /\ UNCHANGED <<obcvars, loopvars>>

\* A milestone bundle of the sync peer arrives.
BundleArrives ==
    /\ PeerValid(peerMap, initial_sync_peer)
    /\ peerMap[initial_sync_peer].last_bundle_ms_time < MaxBundles
    /\ peerMap' = [peerMap EXCEPT ![initial_sync_peer].last_bundle_ms_time = @ + 1]
    /\ calls' = <<>>
    /\ UNCHANGED <<initial_sync, now, outbound, lastTry, sched, num_tries, lastDial>>
    /\ UNCHANGED <<obcvars, loopvars>>

\* The milestone heads GetMilestoneHead can return: one just too old and
\* one just recent enough.
HeadTimes == {now - kSyncTimeThreshold - 1, now - kSyncTimeThreshold}

\* InitialSync next to the seeds the node is connected to from its start,
\* and to the BLOCK messages HandleMessage receives; what the calls of a
\* pass were is looked at before the next event.
NextSync ==
    \/ /\ calls = <<>> /\ now = StartTime
       /\ \E c \in Conns, a \in Seeds : OnConnectionCreated(c, a, FALSE)
    \/ /\ calls = <<>>
       /\ \E c \in Conns : VersionAck(c)
    \/ /\ calls = <<>>
       /\ \E c \in Conns : SyncAvailable(c)
    \/ /\ calls = <<>>
       /\ \E c \in Conns : ConnectionLost(c)
    \/ /\ calls = <<>>
       /\ BundleArrives
    \/ /\ calls = <<>>
       /\ Tick(TimeStep)
    \/ /\ calls = <<>>
       /\ \E headTime \in HeadTimes, downloadingEmpty \in BOOLEAN :
             InitialSync(headTime, downloadingEmpty)
    \/ /\ calls = <<>>
       /\ \E msg \in MessagesOf({"BLOCK"}) : HandleMessage(msg, FALSE, <<>>)
    \/ NextPass

SpecSync == Init /\ [][NextSync]_vars

\* ------------------------------------- peers disconnected and left behind
\* Seeds the node has dialed at its start: an ADDR message of a seed and a
\* stall check of InitialSync call Disconnect and leave the peer in peerMap;
\* RemovePeer may come for it, and CheckTimeout sweeps.
NextGone ==
    \/ /\ now = StartTime
       /\ \E c \in TimedConns, a \in Seeds : OnConnectionCreated(c, a, FALSE)
    \/ \E c \in TimedConns : VersionAck(c)
    \/ \E c \in TimedConns : SyncAvailable(c)
    \/ \E msg \in MessagesOf({"ADDR"}) :
          /\ msg.from \in TimedConns /\ msg.addressList = <<>>
          /\ HandleMessage(msg, FALSE, <<>>)
    \/ Tick(TimeStep)
    \/ InitialSync(now - kSyncTimeThreshold - 1, FALSE)
    \/ \E c \in TimedConns : RemovePeer(c)
    \/ CheckTimeout

SpecGone == Init /\ [][NextGone]_vars

\* The scheduler keeps running: CheckTimeout is called again and again.
SpecGoneFair == SpecGone /\ WF_vars(CheckTimeout)

\* ------------------------------------------------ the peer counts
GetConnectedPeerSize(pm) == Cardinality(DOMAIN pm)

GetFullyConnectedPeerSize(pm) ==
    Cardinality({ c \in DOMAIN pm : pm[c].isFullyConnected })

\* Connections created in both directions, next to handshakes that complete
\* and connections that close.
NextConn ==
    \/ \E c \in Conns, a \in Seeds \cup Addrs, inbound \in BOOLEAN :
          OnConnectionCreated(c, a, inbound)
    \/ \E c \in Conns : VersionAck(c)
    \/ \E c \in Conns : ConnectionLost(c)
    \/ \E c \in Conns : RemovePeer(c)

SpecConn == Init /\ [][NextConn]_vars

\* ------------------------------------------------ threads and peerLock_
\* The threads that take peerLock_ in several steps.
SchedulerThread == <<"scheduler", 0>>
RelayThread == <<"HandleMessage", 0>>
RemoverThread(c) == <<"RemovePeer", c>>

\* The transport of the connection c of a valid peer closes; the
\* ConnectionManager owes the OnConnectionClosed callback for it.
TransportCloses(c) ==
    /\ c \in DOMAIN peerMap
    /\ peerMap[c].valid
    /\ c \notin DOMAIN closing
    /\ peerMap' = [peerMap EXCEPT ![c].valid = FALSE]
    /\ closing' = MapPut(closing, c, "closing")
    /\ calls' = <<>>
    /\ UNCHANGED <<peerLock, relayer, task>>
    /\ UNCHANGED <<initial_sync, now, outbound, lastTry, sched, num_tries, lastDial>>
    /\ UNCHANGED <<obcvars, syncvars, stopvars, mapvars>>

\* OnConnectionClosed running RemovePeer on the thread of the callback.
OnConnectionClosed_Inline(c) ==
    /\ c \in DOMAIN closing
    /\ closing[c] = "closing"
    /\ CanLockUnique(peerLock)
    /\ peerMap' = MapErase(peerMap, c)
    /\ closing' = MapErase(closing, c)
    /\ calls' = <<>>
    /\ UNCHANGED <<peerLock, relayer, task>>
    /\ UNCHANGED <<initial_sync, now, outbound, lastTry, sched, num_tries, lastDial>>
    /\ UNCHANGED <<obcvars, syncvars, stopvars, mapvars>>

\* OnConnectionClosed: the callback starts a detached thread for RemovePeer
\* and returns.
OnConnectionClosed(c) ==
    /\ c \in DOMAIN closing
    /\ closing[c] = "closing"
    /\ closing' = [closing EXCEPT ![c] = "thread"]
    /\ calls' = <<>>
    /\ UNCHANGED <<peerMap, peerLock, relayer, task>>
    /\ UNCHANGED <<initial_sync, now, outbound, lastTry, sched, num_tries, lastDial>>
    /\ UNCHANGED <<obcvars, syncvars, stopvars, mapvars>>

\* RemovePeer, line 128: the detached thread gets the lock exclusively.
RemovePeerLock(c) ==
    /\ c \in DOMAIN closing
    /\ closing[c] = "thread"
    /\ CanLockUnique(peerLock)
    /\ peerLock' = [peerLock EXCEPT !.unique = <<RemoverThread(c)>>]
    /\ closing' = [closing EXCEPT ![c] = "locked"]
    /\ calls' = <<>>
    /\ UNCHANGED <<peerMap, relayer, task>>
    /\ UNCHANGED <<initial_sync, now, outbound, lastTry, sched, num_tries, lastDial>>
    /\ UNCHANGED <<obcvars, syncvars, stopvars, mapvars>>

\* RemovePeer, lines 129-130: erase, whether the key is there or not, and
\* the lock is released.
RemovePeerErase(c) ==
    /\ c \in DOMAIN closing
    /\ closing[c] = "locked"
    /\ peerMap' = MapErase(peerMap, c)
    /\ peerLock' = [peerLock EXCEPT !.unique = <<>>]
    /\ closing' = MapErase(closing, c)
    /\ calls' = <<Call("erase", c, <<>>)>>
    /\ UNCHANGED <<relayer, task>>
    /\ UNCHANGED <<initial_sync, now, outbound, lastTry, sched, num_tries, lastDial>>
    /\ UNCHANGED <<obcvars, syncvars, stopvars, mapvars>>

\* The scheduler finds CheckTimeout due and calls it: its thread will wait
\* for the lock.
CheckTimeoutCall ==
    /\ task.pc = "idle"
    /\ task' = [pc |-> "lock", todo |-> <<>>]
    /\ calls' = <<>>
    /\ UNCHANGED <<peerMap, peerLock, closing, relayer>>
    /\ UNCHANGED <<initial_sync, now, outbound, lastTry, sched, num_tries, lastDial>>
    /\ UNCHANGED <<obcvars, syncvars, stopvars, mapvars>>

\* CheckTimeout, line 291: the scheduler thread gets the lock exclusively.
CheckTimeoutLock ==
    /\ task.pc = "lock"
    /\ CanLockUnique(peerLock)
    /\ peerLock' = [peerLock EXCEPT !.unique = <<SchedulerThread>>]
    /\ task' = [pc |-> "CheckTimeout", todo |-> <<>>]
    /\ calls' = <<>>
    /\ UNCHANGED <<peerMap, closing, relayer>>
    /\ UNCHANGED <<initial_sync, now, outbound, lastTry, sched, num_tries, lastDial>>
    /\ UNCHANGED <<obcvars, syncvars, stopvars, mapvars>>

\* The handles Disconnect is called on in a list of calls.
Disconnected(cs) == { cs[i].to : i \in CallsOf("Disconnect", cs) }

\* CheckTimeout, lines 292-326: the sweep, after which the lock is
\* released; the transports of the peers it disconnects close.
CheckTimeoutSweep ==
    LET r == Sweep([peerMap |-> peerMap, calls |-> <<Call("time", 0, <<now>>)>>],
                   PeerOrder(peerMap), now)
    IN  /\ task.pc = "CheckTimeout"
        /\ peerMap' = r.peerMap
        /\ calls' = r.calls
        /\ closing' = [c \in DOMAIN closing \cup Disconnected(r.calls) |->
                          IF c \in DOMAIN closing THEN closing[c] ELSE "closing"]
        /\ peerLock' = [peerLock EXCEPT !.unique = <<>>]
        /\ task' = IdleIteration
        /\ UNCHANGED relayer
        /\ UNCHANGED <<initial_sync, now, outbound, lastTry, sched, num_tries, lastDial>>
        /\ UNCHANGED <<obcvars, syncvars, stopvars, mapvars>>

\* The ping task, line 464: the scheduler thread shares the lock.
PingLock ==
    /\ task.pc = "idle"
    /\ CanLockShared(peerLock)
    /\ peerLock' = [peerLock EXCEPT !.shared = @ \cup {SchedulerThread}]
    /\ task' = [pc |-> "SendPing", todo |-> PeerOrder(peerMap)]
    /\ calls' = <<>>
    /\ UNCHANGED <<peerMap, closing, relayer>>
    /\ UNCHANGED <<initial_sync, now, outbound, lastTry, sched, num_tries, lastDial>>
    /\ UNCHANGED <<obcvars, syncvars, stopvars, mapvars>>

\* The ping task, lines 465-467: SendPing on the next peer.
PingSend ==
    /\ task.pc = "SendPing"
    /\ task.todo # <<>>
    /\ calls' = <<Call("SendPing", Head(task.todo), <<>>)>>
    /\ task' = [task EXCEPT !.todo = Tail(@)]
    /\ UNCHANGED <<peerMap, peerLock, closing, relayer>>
    /\ UNCHANGED <<initial_sync, now, outbound, lastTry, sched, num_tries, lastDial>>
    /\ UNCHANGED <<obcvars, syncvars, stopvars, mapvars>>

\* The ping task, line 468: the loop is over and the lock is released.
PingUnlock ==
    /\ task.pc = "SendPing"
    /\ task.todo = <<>>
    /\ peerLock' = [peerLock EXCEPT !.shared = @ \ {SchedulerThread}]
    /\ task' = IdleIteration
    /\ calls' = <<>>
    /\ UNCHANGED <<peerMap, closing, relayer>>
    /\ UNCHANGED <<initial_sync, now, outbound, lastTry, sched, num_tries, lastDial>>
    /\ UNCHANGED <<obcvars, syncvars, stopvars, mapvars>>

\* RelayBlock, lines 396-399: the thread shares the lock; the peers it
\* will send to are the ones that are not msg_from.
RelayBlockLock(from) ==
    /\ relayer.pc = "idle"
    /\ CanLockShared(peerLock)
    /\ peerLock' = [peerLock EXCEPT !.shared = @ \cup {RelayThread}]
    /\ relayer' = [pc |-> "RelayBlock",
                   todo |-> SelectSeq(PeerOrder(peerMap), LAMBDA c : c # from)]
    /\ calls' = <<Call("RelayBlock", from, <<>>)>>
    /\ UNCHANGED <<peerMap, closing, task>>
    /\ UNCHANGED <<initial_sync, now, outbound, lastTry, sched, num_tries, lastDial>>
    /\ UNCHANGED <<obcvars, syncvars, stopvars, mapvars>>

\* RelayBlock, lines 401-405: SendMessage on the next peer.
RelayBlockSend ==
    /\ relayer.pc = "RelayBlock"
    /\ relayer.todo # <<>>
    /\ calls' = <<Call("SendMessage", Head(relayer.todo), <<"BLOCK">>)>>
    /\ relayer' = [relayer EXCEPT !.todo = Tail(@)]
    /\ UNCHANGED <<peerMap, peerLock, closing, task>>
    /\ UNCHANGED <<initial_sync, now, outbound, lastTry, sched, num_tries, lastDial>>
    /\ UNCHANGED <<obcvars, syncvars, stopvars, mapvars>>

\* RelayBlock, line 406: the function returns and the lock is released.
RelayBlockUnlock ==
    /\ relayer.pc = "RelayBlock"
    /\ relayer.todo = <<>>
    /\ peerLock' = [peerLock EXCEPT !.shared = @ \ {RelayThread}]
    /\ relayer' = IdleIteration
    /\ calls' = <<>>
    /\ UNCHANGED <<peerMap, closing, task>>
    /\ UNCHANGED <<initial_sync, now, outbound, lastTry, sched, num_tries, lastDial>>
    /\ UNCHANGED <<obcvars, syncvars, stopvars, mapvars>>

\* The threads of the Peer Manager around peerLock_: the callbacks of the
\* transport (AddPeer takes the lock exclusively), the detached threads of
\* OnConnectionClosed, the scheduler thread and a thread relaying a block.
NextLock ==
    \/ /\ CanLockUnique(peerLock)
       /\ \E c \in TimedConns \ DOMAIN closing, a \in Addrs : OnConnectionCreated(c, a, TRUE)
    \/ \E c \in TimedConns : VersionAck(c)
    \/ \E c \in TimedConns : SyncStalls(c)
    \/ \E c \in TimedConns : TransportCloses(c)
    \/ \E c \in TimedConns : OnConnectionClosed(c)
    \/ \E c \in TimedConns : RemovePeerLock(c)
    \/ \E c \in TimedConns : RemovePeerErase(c)
    \/ CheckTimeoutCall
    \/ CheckTimeoutLock
    \/ CheckTimeoutSweep
    \/ PingLock
    \/ PingSend
    \/ PingUnlock
    \/ \E from \in {0} \cup TimedConns : RelayBlockLock(from)
    \/ RelayBlockSend
    \/ RelayBlockUnlock

SpecLock == Init /\ [][NextLock]_vars

\* Every thread that has started something is scheduled, a thread waiting
\* to hold the lock exclusively gets it if the lock is free again and again,
\* and the scheduler calls its periodic task CheckTimeout again and again.
SpecLockFair ==
    /\ SpecLock
    /\ \A c \in TimedConns :
          /\ WF_vars(OnConnectionClosed(c))
          /\ SF_vars(RemovePeerLock(c))
          /\ WF_vars(RemovePeerErase(c))
    /\ SF_vars(CheckTimeoutCall)
    /\ SF_vars(CheckTimeoutLock)
    /\ WF_vars(CheckTimeoutSweep)
    /\ WF_vars(PingSend)
    /\ WF_vars(PingUnlock)
    /\ WF_vars(RelayBlockSend)
    /\ WF_vars(RelayBlockUnlock)

\* -------------------------------------------------------------------- Stop
\* The test of the loop of HandleMessage: the thread leaves, or goes on to
\* ReceiveMessage.
TestHandleMessage ==
    /\ pc["HandleMessage"] = "test"
    /\ pc' = [pc EXCEPT !["HandleMessage"] =
                  IF LoopGoesOn(interrupt) THEN "receive" ELSE "done"]
    /\ calls' = <<>>
    /\ UNCHANGED <<peerMap, initial_sync, now, outbound, lastTry, sched, num_tries, lastDial>>
    /\ UNCHANGED <<mapvars, lockvars, syncvars, interrupt, quit, stop>>
    /\ UNCHANGED obcvars

\* ReceiveMessage hands msg to the thread, which handles it as HandleMessage
\* does and goes back to the test of its loop.
Receive(msg, accept, draws) ==
    LET received == <<Call("ReceiveMessage", msg.from, msg)>>
    IN  /\ pc["HandleMessage"] = "receive"
        /\ ~quit
        /\ IF initial_sync /\ msg.type = "BLOCK"
           THEN /\ calls' = received
                /\ UNCHANGED <<peerMap, lastTry>>
           ELSE IF msg.from \notin DOMAIN peerMap \/ ~peerMap[msg.from].valid
           THEN /\ calls' = received
                /\ UNCHANGED <<peerMap, lastTry>>
           ELSE LET r == Dispatch(msg, accept, draws)
                IN  /\ calls' = received \o r.calls
                    /\ lastTry' = r.lastTry
                    /\ peerMap' = r.peerMap
        /\ pc' = [pc EXCEPT !["HandleMessage"] = "test"]
        /\ UNCHANGED <<initial_sync, now, outbound, sched, num_tries, lastDial>>
        /\ UNCHANGED <<mapvars, lockvars, syncvars, interrupt, quit, stop>>
        /\ UNCHANGED obcvars

\* ReceiveMessage returns false once QuitQueue has been called.
ReceiveQuit ==
    /\ pc["HandleMessage"] = "receive"
    /\ quit
    /\ pc' = [pc EXCEPT !["HandleMessage"] = "test"]
    /\ calls' = <<>>
    /\ UNCHANGED <<peerMap, initial_sync, now, outbound, lastTry, sched, num_tries, lastDial>>
    /\ UNCHANGED <<mapvars, lockvars, syncvars, interrupt, quit, stop>>
    /\ UNCHANGED obcvars

\* The loop of worker w (ScheduleTask, OpenConnection or InitialSync) finds
\* interrupt_ set and its thread ends.
LoopExit(w) ==
    /\ pc[w] = "test"
    /\ ~LoopGoesOn(interrupt)
    /\ pc' = [pc EXCEPT ![w] = "done"]
    /\ calls' = <<>>
    /\ UNCHANGED <<peerMap, initial_sync, now, outbound, lastTry, sched, num_tries, lastDial>>
    /\ UNCHANGED <<mapvars, lockvars, syncvars, interrupt, quit, stop>>
    /\ UNCHANGED obcvars

\* Stop, line 50.
StopInterrupt ==
    /\ stop = "idle"
    /\ interrupt' = TRUE
    /\ stop' = "QuitQueue"
    /\ calls' = <<>>
    /\ UNCHANGED <<peerMap, initial_sync, now, outbound, lastTry, sched, num_tries, lastDial>>
    /\ UNCHANGED <<mapvars, lockvars, syncvars, quit, pc>>
    /\ UNCHANGED obcvars

\* Stop, line 51.
StopQuitQueue ==
    /\ stop = "QuitQueue"
    /\ quit' = TRUE
    /\ stop' = "join"
    /\ calls' = <<Call("QuitQueue", 0, <<>>)>>
    /\ UNCHANGED <<peerMap, initial_sync, now, outbound, lastTry, sched, num_tries, lastDial>>
    /\ UNCHANGED <<mapvars, lockvars, syncvars, interrupt, pc>>
    /\ UNCHANGED obcvars

\* Stop, lines 53-67: the joins return when the four threads have ended.
StopJoin ==
    /\ stop = "join"
    /\ \A w \in Workers : pc[w] = "done"
    /\ stop' = "DisconnectAllPeer"
    /\ calls' = <<>>
    /\ UNCHANGED <<peerMap, initial_sync, now, outbound, lastTry, sched, num_tries, lastDial>>
    /\ UNCHANGED <<mapvars, lockvars, syncvars, interrupt, quit, pc>>
    /\ UNCHANGED obcvars

\* DisconnectAllPeer, under the shared lock: Disconnect on every peer of
\* the map.
RECURSIVE DisconnectAll(_, _)
DisconnectAll(pm, order) ==
    IF order = <<>> THEN pm ELSE DisconnectAll(Disconnect(pm, Head(order)), Tail(order))

StopDisconnectAllPeer ==
    /\ stop = "DisconnectAllPeer"
    /\ peerMap' = DisconnectAll(peerMap, PeerOrder(peerMap))
    /\ calls' = [i \in 1 .. Len(PeerOrder(peerMap)) |->
                    Call("Disconnect", PeerOrder(peerMap)[i], <<>>)]
    /\ stop' = "ClearPeers"
    /\ UNCHANGED <<initial_sync, now, outbound, lastTry, sched, num_tries, lastDial>>
    /\ UNCHANGED <<mapvars, lockvars, syncvars, interrupt, quit, pc>>
    /\ UNCHANGED obcvars

\* ClearPeers, under the exclusive lock.
StopClearPeers ==
    /\ stop = "ClearPeers"
    /\ peerMap' = EmptyMap
    /\ calls' = <<>>
    /\ stop' = "StopConnectionManager"
    /\ UNCHANGED <<initial_sync, now, outbound, lastTry, sched, num_tries, lastDial>>
    /\ UNCHANGED <<mapvars, lockvars, syncvars, interrupt, quit, pc>>
    /\ UNCHANGED obcvars

\* Stop, line 71: connectionManager_->Stop(), after which Stop returns and
\* the ConnectionManager makes no callback any more.
StopConnectionManager ==
    /\ stop = "StopConnectionManager"
    /\ stop' = "returned"
    /\ calls' = <<Call("Stop", 0, <<>>)>>
    /\ UNCHANGED <<peerMap, initial_sync, now, outbound, lastTry, sched, num_tries, lastDial>>
    /\ UNCHANGED <<mapvars, lockvars, syncvars, interrupt, quit, pc>>
    /\ UNCHANGED obcvars

\* The four worker loops.
WorkerStep ==
    \/ TestHandleMessage
    \/ \E msg \in MessagesOf({"OTHER"}) : Receive(msg, FALSE, <<>>)
    \/ ReceiveQuit
    \/ pc["ScheduleTask"] = "test" /\ LoopGoesOn(interrupt) /\ CheckTimeout
    \/ /\ pc["OpenConnection"] = "test" /\ LoopGoesOn(interrupt)
       /\ \E seed \in SeedChoices :
             OpenConnection(TimeStep, seed, << <<>> >>, [seed |-> FALSE, addr |-> FALSE])
    \/ \E headTime \in HeadTimes : InitialSync(headTime, FALSE)
    \/ \E w \in Workers \ {"HandleMessage"} : LoopExit(w)

\* The thread that calls Stop.
StopStep ==
    \/ StopInterrupt
    \/ StopQuitQueue
    \/ StopJoin
    \/ StopDisconnectAllPeer
    \/ StopClearPeers
    \/ StopConnectionManager

\* The callbacks of the ConnectionManager, which runs until Stop has
\* stopped it, and the threads OnConnectionClosed starts.
CallbackStep ==
    \/ /\ stop # "returned"
       /\ \E c \in TimedConns, a \in Seeds : OnConnectionCreated(c, a, TRUE)
    \/ /\ stop # "returned"
       /\ \E c \in TimedConns : ConnectionLost(c)
    \/ \E c \in TimedConns : RemovePeer(c)

NextStop == WorkerStep \/ StopStep \/ CallbackStep

SpecStop == Init /\ [][NextStop]_vars

\* The threads are scheduled: a loop that can test interrupt_ does, a
\* ReceiveMessage released by QuitQueue returns, and Stop goes on whenever
\* its next statement can run.
SpecStopFair ==
    /\ SpecStop
    /\ WF_vars(TestHandleMessage)
    /\ WF_vars(ReceiveQuit)
    /\ \A w \in Workers \ {"HandleMessage"} : WF_vars(LoopExit(w))
    /\ WF_vars(StopStep)

\* ------------------------------------------- the ConcurrentHashMap in use
\* insert_or_assign(k, obj).
InsertOrAssign(k, obj) ==
    /\ hashMap' = MapPut(hashMap, k, obj)
    /\ UNCHANGED <<updated, obcvars, peervars, syncvars, stopvars, lockvars>>

\* erase(k) of a key the map has.
EraseKey(k) ==
    /\ k \in DOMAIN hashMap
    /\ hashMap' = MapErase(hashMap, k)
    /\ UNCHANGED <<updated, obcvars, peervars, syncvars, stopvars, lockvars>>

\* A call of update_key; updated records the arguments, which of the two
\* keys the map had, and the value returned.
UpdateKey(oldKey, newKey) ==
    /\ updated.n < MaxUpdates
    /\ LET r == update_key(hashMap, oldKey, newKey)
       IN  /\ hashMap' = r.c
           /\ updated' = [n      |-> updated.n + 1,
                          oldKey |-> oldKey,
                          newKey |-> newKey,
                          hadOld |-> oldKey \in DOMAIN hashMap,
                          hadNew |-> newKey \in DOMAIN hashMap,
                          ret    |-> r.ret]
    /\ UNCHANGED <<obcvars, peervars, syncvars, stopvars, lockvars>>

NextKey ==
    \/ \E k \in Keys, obj \in Values : InsertOrAssign(k, obj)
    \/ \E k \in Keys : EraseKey(k)
    \/ \E oldKey \in Keys, newKey \in Keys : UpdateKey(oldKey, newKey)

SpecKey == Init /\ [][NextKey]_vars

\* --------------------------------------------------------------- observers
Size == Cardinality(DOMAIN block_dep_map)
DependencySize == Cardinality(DOMAIN lose_ends)
IsEmpty == Size = 0
Contains(hash) == hash \in DOMAIN block_dep_map

TypeOK ==
    /\ DOMAIN block_dep_map \subseteq Hashes
    /\ \A h \in DOMAIN block_dep_map : block_dep_map[h] \in DOMAIN heap
    /\ DOMAIN lose_ends \subseteq Hashes
    /\ \A h \in DOMAIN lose_ends : lose_ends[h] \subseteq DOMAIN heap

\* ------------------------------------------------------------------ claims
Count(x, s) == Cardinality({ i \in DOMAIN s : s[i] = x })

\* C1: a block is returned by SubmitHash only if each distinct parent hash
\* declared missing for it has been passed to SubmitHash or is the hash of a
\* block released earlier.
C1_ReleasedOnlyWhenParentsResolved ==
    \A i \in DOMAIN released :
        \A p \in declared[released[i]] :
            \/ p \in submitted
            \/ \E j \in 1 .. (i - 1) : released[j] = p

\* C2: as soon as every distinct parent hash declared missing for an orphan
\* has been passed to SubmitHash or belongs to a released block, the orphan
\* itself has been returned by SubmitHash.
C2_ReleasedAsSoonAsParentsResolved ==
    \A b \in DOMAIN declared :
        (\A p \in declared[b] : p \in submitted \/ p \in Range(released))
            => b \in Range(released)

C4_OrphanCascade ==
    \A a, b, c \in Hashes :
        ( /\ declared = (c :> {b}) @@ (b :> {a})
          /\ heap[b].deps = <<>>
          /\ submitted = {a}
          /\ ret.has_value )
        => /\ Range(released) = {b, c}
           /\ Len(released) = 2
           /\ block_dep_map = EmptyMap

\* C5: when SubmitHash(h1) and SubmitHash(h2), h1 # h2, run in two threads
\* and an orphan waits on exactly the lose ends h1 and h2, then once both
\* calls have finished the orphan has been returned exactly once and is no
\* longer in block_dep_map.
C5_ConcurrentSubmitReleasesOnce ==
    \A d \in DOMAIN declared : \A h1, h2 \in Hashes :
        ( /\ h1 # h2
          /\ declared[d] = {h1, h2}
          /\ h1 \notin DOMAIN declared /\ h2 \notin DOMAIN declared
          /\ {h1, h2} \subseteq submitted
          /\ \A t \in Threads : th[t].pc = "idle" )
        => /\ Count(d, released) = 1
           /\ d \notin DOMAIN block_dep_map

\* Number of places that hold the obc_dep d: sets of lose_ends, and positions
\* in the deps lists of the other entries of block_dep_map.
Occurrences(d) ==
    Cardinality({ k \in DOMAIN lose_ends : d \in lose_ends[k] })
    + Cardinality({ pos \in (DOMAIN block_dep_map) \X (1 .. 3 * Cardinality(DOMAIN heap)) :
                      /\ block_dep_map[pos[1]] # d
                      /\ pos[2] \in DOMAIN heap[block_dep_map[pos[1]]].deps
                      /\ heap[block_dep_map[pos[1]]].deps[pos[2]] = d })

\* C6: between calls, each obc_dep in block_dep_map occurs exactly ndeps
\* times across lose_ends and the deps lists of other entries.
C6_OccurrencesEqualNdeps ==
    \A h \in DOMAIN block_dep_map :
        Occurrences(block_dep_map[h]) = heap[block_dep_map[h]].ndeps

\* C7: between calls, no hash is a key of lose_ends and of block_dep_map.
C7_LoseEndsUnknownToOBC ==
    (DOMAIN lose_ends) \cap (DOMAIN block_dep_map) = {}

\* C8: between calls, the keys of block_dep_map are the blocks added and not
\* yet returned, and each of them has a declared missing parent that was
\* neither submitted nor released.
C8_MapHoldsExactlyTheWaiting ==
    /\ DOMAIN block_dep_map = (DOMAIN declared) \ Range(released)
    /\ \A b \in DOMAIN block_dep_map :
            \E p \in declared[b] : p \notin submitted /\ p \notin Range(released)

\* C9: after AddBlock with a non-zero mask the new obc_dep counts the
\* distinct parent hashes selected by the mask (1 to 3), and every obc_dep in
\* block_dep_map between calls has ndeps > 0.
C9_NdepsCountsDistinctParents ==
    [][ /\ \A h \in DOMAIN block_dep_map' : heap'[block_dep_map'[h]].ndeps > 0
        /\ \A h \in (DOMAIN declared') \ (DOMAIN declared) :
              /\ h \in DOMAIN block_dep_map'
              /\ block_dep_map'[h] \notin DOMAIN heap
              /\ heap'[block_dep_map'[h]].ndeps = Cardinality(declared'[h])
              /\ heap'[block_dep_map'[h]].ndeps \in 1 .. 3 ]_vars

\* C9 witness: an orphan with three parents declared missing, two of them the
\* hash of the same orphan (whose deps list holds it twice), counts 2.
C9_Witness ==
    \E d \in DOMAIN block_dep_map, p \in DOMAIN heap :
        /\ Count(block_dep_map[d], heap[p].deps) = 2
        /\ Cardinality(declared[d]) = 2
        /\ heap[block_dep_map[d]].ndeps = 2

\* A step that leaves declared alone is a step of SubmitHash(h), for an h
\* with submitted' = submitted \cup {h}.
\* C10: SubmitHash(h) with h not a key of lose_ends returns no value and
\* leaves block_dep_map, lose_ends and every obc_dep unchanged; with h a key
\* of lose_ends it returns a list and removes the key h.
C10_SubmitHashFrame ==
    [][ declared' = declared =>
          \A h \in Hashes :
              submitted' = submitted \cup {h} =>
                  IF h \notin DOMAIN lose_ends
                  THEN /\ ~ret'.has_value
                       /\ UNCHANGED <<block_dep_map, lose_ends, heap>>
                  ELSE /\ ret'.has_value
                       /\ h \notin DOMAIN lose_ends' ]_vars

\* C10 witness: SubmitHash of the hash of an orphan that ties no lose end has
\* returned no value.
C10_Witness ==
    /\ ~ret.has_value
    /\ \E h \in submitted : h \in DOMAIN block_dep_map

\* C11: AddBlock for a block whose hash is a key of block_dep_map leaves
\* Size() unchanged and maps the hash to the new obc_dep; a block added more
\* than once is returned by SubmitHash at most once in all and is not a key
\* of block_dep_map once it has been returned.
C11_ReaddReplacesEntry ==
    [][ /\ \A h \in DOMAIN block_dep_map :
              (\E d \in (DOMAIN heap') \ (DOMAIN heap) : heap'[d].block = h)
                  => /\ Size' = Size
                     /\ h \in DOMAIN block_dep_map'
                     /\ block_dep_map'[h] \notin DOMAIN heap
        /\ \A h \in Hashes :
              Cardinality({ d \in DOMAIN heap' : heap'[d].block = h }) > 1
                  => /\ Count(h, released') <= 1
                     /\ h \in Range(released') => h \notin DOMAIN block_dep_map' ]_vars

\* C12: AddBlock(block, 0) leaves block_dep_map, lose_ends, the obc_dep
\* objects, Size() and DependencySize() unchanged, and a block handed over
\* with mask 0 is not returned by any SubmitHash.
C12_ZeroMaskIsNoOp ==
    [][ /\ unmasked' # unmasked =>
              /\ UNCHANGED <<block_dep_map, lose_ends, heap>>
              /\ Size' = Size
              /\ DependencySize' = DependencySize
        /\ \A h \in unmasked' : h \notin Range(released') ]_vars

\* C12 witness: a block was handed over with mask 0 while an orphan waits,
\* and a later SubmitHash has returned that orphan.
C12_Witness ==
    /\ unmasked # {}
    /\ released # <<>>
    /\ \E h \in unmasked : h \in submitted

\* The message a HandleMessage step was about (its first call is
\* ReceiveMessage), for the steps that are passes of HandleMessage.
IsHandling(cs, type) ==
    /\ cs # <<>>
    /\ cs[1].op = "ReceiveMessage"
    /\ cs[1].arg.type = type

\* C13: while initial_sync is set, HandleMessage forwards no BLOCK message
\* to DAG.AddNewBlock; when it is clear, a BLOCK message from a connection
\* whose peer is in peerMap and valid is forwarded exactly once, with that
\* peer as the source.
C13_BlocksDroppedDuringInitialSync ==
    [][ IsHandling(calls', "BLOCK") =>
          LET from == calls'[1].to
              fwd  == CallsOf("AddNewBlock", calls')
          IN  /\ initial_sync => fwd = {}
              /\ (~initial_sync /\ from \in DOMAIN peerMap /\ peerMap[from].valid)
                    => /\ Cardinality(fwd) = 1
                       /\ \A i \in fwd : calls'[i].to = from ]_vars

\* C13 witness: a BLOCK message of a valid peer was dropped with the flag set.
C13_Witness ==
    /\ initial_sync
    /\ IsHandling(calls, "BLOCK")
    /\ Len(calls) = 1
    /\ calls[1].to \in DOMAIN peerMap
    /\ peerMap[calls[1].to].valid

\* C14: a TX message is sent on to a peer exactly when Verify succeeded,
\* MEMPOOL accepted, and the peer is in peerMap and is not the sender, and
\* then once; when Verify fails, MEMPOOL is not called, nothing is sent, and
\* the sender is neither disconnected nor removed.
C14_TxRelayedIffVerifiedAndAccepted ==
    [][ IsHandling(calls', "TX") =>
          LET from     == calls'[1].to
              verified == \E i \in CallsOf("Verify", calls') : calls'[i].arg = <<TRUE>>
              failed   == \E i \in CallsOf("Verify", calls') : calls'[i].arg = <<FALSE>>
              accepted == \E i \in CallsOf("ReceiveTx", calls') : calls'[i].arg = <<TRUE>>
              SentTo(c) == { i \in CallsOf("SendMessage", calls') : calls'[i].to = c }
          IN  /\ \A c \in Conns :
                    Cardinality(SentTo(c)) =
                        IF verified /\ accepted /\ c \in DOMAIN peerMap /\ c # from
                        THEN 1 ELSE 0
              /\ failed => /\ CallsOf("ReceiveTx", calls') = {}
                           /\ CallsOf("SendMessage", calls') = {}
                           /\ CallsOf("Disconnect", calls') = {}
                           /\ peerMap' = peerMap ]_vars

\* C14 witness: a transaction was sent on to a peer other than its sender.
C14_Witness ==
    /\ IsHandling(calls, "TX")
    /\ calls[1].to \in DOMAIN peerMap
    /\ \E i \in CallsOf("SendMessage", calls) : calls[i].to # calls[1].to

\* C20: an ADDR message with more than kMaxAddressSize addresses is dropped
\* as a whole: no address is added to the address book, nothing is relayed,
\* and the sender, seed or not, is neither disconnected nor removed.
C20_OversizedAddrDropped ==
    [][ (IsHandling(calls', "ADDR") /\ Len(calls'[1].arg.addressList) > kMaxAddressSize)
          => /\ CallsOf("AddNewAddress", calls') = {}
             /\ lastTry' = lastTry
             /\ CallsOf("RelayAddrMsg", calls') = {}
             /\ CallsOf("Disconnect", calls') = {}
             /\ peerMap' = peerMap ]_vars

\* C15: a sweep of CheckTimeout disconnects and erases a valid fully
\* connected peer exactly when lastPingTime + kPingWaitTimeout < now, or
\* nPingFailed > kMaxPingFailures, or IsSyncTimeout() holds; any other valid
\* fully connected peer stays in peerMap as it is and is not disconnected.
C15_FullyConnectedSweep ==
    [][ CheckTimeout =>
          \A c \in DOMAIN peerMap :
              (peerMap[c].valid /\ peerMap[c].isFullyConnected) =>
                  LET due == \/ peerMap[c].lastPingTime + kPingWaitTimeout < now
                             \/ peerMap[c].nPingFailed > kMaxPingFailures
                             \/ peerMap[c].syncTimeout
                      disconnected == \E i \in CallsOf("Disconnect", calls') : calls'[i].to = c
                  IN  IF due
                      THEN c \notin DOMAIN peerMap' /\ disconnected
                      ELSE /\ c \in DOMAIN peerMap'
                           /\ peerMap'[c] = peerMap[c]
                           /\ ~disconnected ]_vars

\* C15 witness: a sweep has disconnected a peer before any ping or handshake
\* deadline could pass, that is for its failed pings or its sync timeout.
C15_Witness ==
    /\ CallsOf("Disconnect", calls) # {}
    /\ now < StartTime + kPingWaitTimeout
    /\ now < StartTime + kConnectionSetupTimeout

\* C16: a sweep keeps a valid peer that is not fully connected while
\* now <= connected_time + kConnectionSetupTimeout, and disconnects and
\* erases it when connected_time + kConnectionSetupTimeout < now; with
\* CheckTimeout run every kCheckTimeoutInterval seconds, no such peer is in
\* peerMap later than kConnectionSetupTimeout + kCheckTimeoutInterval
\* seconds after it connected.
C16_HandshakeTimeout ==
    [][ /\ (ScheduleTask /\ now >= sched) =>
              \A c \in DOMAIN peerMap :
                  (peerMap[c].valid /\ ~peerMap[c].isFullyConnected) =>
                      LET disconnected ==
                              \E i \in CallsOf("Disconnect", calls') : calls'[i].to = c
                      IN  IF now <= peerMap[c].connected_time + kConnectionSetupTimeout
                          THEN /\ c \in DOMAIN peerMap'
                               /\ peerMap'[c] = peerMap[c]
                               /\ ~disconnected
                          ELSE c \notin DOMAIN peerMap' /\ disconnected
        /\ \A c \in DOMAIN peerMap' :
              (peerMap'[c].valid /\ ~peerMap'[c].isFullyConnected) =>
                  now' - peerMap'[c].connected_time
                      <= kConnectionSetupTimeout + kCheckTimeoutInterval ]_vars

\* C16 witness: a sweep has disconnected the last peer, which can only have
\* connected kConnectionSetupTimeout + kCheckTimeoutInterval seconds before.
C16_Witness ==
    /\ CallsOf("Disconnect", calls) # {}
    /\ peerMap = EmptyMap
    /\ now = StartTime + kConnectionSetupTimeout + kCheckTimeoutInterval + 1

\* In SpecOut and SpecDial the clock moves in the passes of OpenConnection
\* (their sleep) and in no other step.
\* C17: a pass of OpenConnection that finds kMax_outbound or more outbound
\* connections issues no Connect, neither to a seed nor to a known address.
C17_NoDialAtMaxOutbound ==
    [][ (now' # now /\ outbound >= kMax_outbound)
          => CallsOf("Connect", calls') = {} ]_vars

\* The known addresses a pass of OpenConnection dialed.
AddressDials(cs) ==
    { cs[i].to : i \in { j \in CallsOf("Connect", cs) : cs[j].arg = <<"address">> } }

C19_OneDialPerIteration ==
    [][ now' # now =>
          /\ Cardinality(CallsOf("Connect", calls')) <= 1
          /\ \A a \in AddressDials(calls') : lastTry'[a] = now'
          /\ \A a \in DOMAIN lastTry \ AddressDials(calls') :
                lastTry'[a] = lastTry[a] ]_vars

\* The routable addresses of a list.
Routable(list) == { list[i] : i \in { j \in DOMAIN list : IsRoutable(list[j]) } }

\* The pass of HandleMessage that made the calls cs got as far as
\* ProcessAddressMessage with a list within the limit: pm is the map it found.
ProcessesAddr(cs, pm) ==
    /\ IsHandling(cs, "ADDR")
    /\ cs[1].to \in DOMAIN pm
    /\ pm[cs[1].to].valid
    /\ Len(cs[1].arg.addressList) <= kMaxAddressSize

C22_RoutableAddressesSavedAndRelayed ==
    [][ ProcessesAddr(calls', peerMap) =>
          LET list == calls'[1].arg.addressList
              adds == CallsOf("AddNewAddress", calls')
              rels == CallsOf("RelayAddrMsg", calls')
          IN  /\ { calls'[j].to : j \in adds } = Routable(list)
              /\ DOMAIN lastTry' = DOMAIN lastTry \cup Routable(list)
              /\ \A j \in rels :
                    /\ calls'[j].arg = SelectSeq(list, IsRoutable)
                    /\ Routable(calls'[j].arg) = Routable(list)
              /\ Routable(list) = {} => rels = {} ]_vars

\* C22 witness: a list with a routable and a non-routable address was
\* relayed.
C22_Witness ==
    /\ IsHandling(calls, "ADDR")
    /\ CallsOf("RelayAddrMsg", calls) # {}
    /\ \E i \in DOMAIN calls[1].arg.addressList : ~IsRoutable(calls[1].arg.addressList[i])

\* C23: in one call of RelayAddressMsg the peers that get the list are
\* pairwise distinct, at most kMaxPeersToRelayAddr, peers of peerMap, and
\* not the sender; each of them gets the whole list, once.
C23_AddrRelayRecipients ==
    [][ (calls' # <<>> /\ calls'[1].op = "RelayAddressMsg") =>
          LET from == calls'[1].to
              list == calls'[1].arg
              rels == CallsOf("RelayAddrMsg", calls')
          IN  /\ rels = 2 .. Len(calls')
              /\ Cardinality(rels) <= kMaxPeersToRelayAddr
              /\ \A i, j \in rels : calls'[i].to = calls'[j].to => i = j
              /\ \A j \in rels :
                    /\ calls'[j].to \in DOMAIN peerMap
                    /\ calls'[j].to # from
                    /\ calls'[j].arg = list ]_vars

\* C23 witness: a call of RelayAddressMsg by a sender of the map reached
\* kMaxPeersToRelayAddr other peers.
C23_Witness ==
    /\ calls # <<>>
    /\ calls[1].op = "RelayAddressMsg"
    /\ calls[1].to \in DOMAIN peerMap
    /\ Cardinality(CallsOf("RelayAddrMsg", calls)) = kMaxPeersToRelayAddr

C25_InvalidPeersErased ==
    [][ CheckTimeout =>
          /\ \A c \in DOMAIN peerMap :
                ~peerMap[c].valid =>
                    /\ c \notin DOMAIN peerMap'
                    /\ \A i \in CallsOf("Disconnect", calls') : calls'[i].to # c
          /\ \A c \in DOMAIN peerMap' : peerMap'[c].valid ]_vars

\* C25 witness: a sweep has erased a peer without a Disconnect, after the
\* deadline of every handshake had passed.
C25_Witness ==
    /\ CallsOf("erase", calls) # {}
    /\ CallsOf("Disconnect", calls) = {}
    /\ now > StartTime + kConnectionSetupTimeout

\* C26: a sweep of CheckTimeout disconnects and erases a valid fully
\* connected peer whose nPingFailed has reached kMaxPingFailures, whether or
\* not kPingWaitTimeout has passed since its lastPingTime.
C26_DroppedAtMaxPingFailures ==
    [][ CheckTimeout =>
          \A c \in DOMAIN peerMap :
              (/\ peerMap[c].valid
               /\ peerMap[c].isFullyConnected
               /\ peerMap[c].nPingFailed >= kMaxPingFailures) =>
                  /\ c \notin DOMAIN peerMap'
                  /\ \E i \in CallsOf("Disconnect", calls') : calls'[i].to = c ]_vars

\* A step that is a pass of InitialSync: its first call is GetMilestoneHead.
IsSyncPass(cs) == cs # <<>> /\ cs[1].op = "GetMilestoneHead"

\* C27: when the sync peer of a stall check is the sync peer of the stall
\* check before and its last_bundle_ms_time is what it was then, the pass
\* disconnects it and calls no StartSync; and a pass that finds no sync
\* peer, or an invalid one, goes on with a peer that is valid, fully
\* connected and available for sync, or with none when there is no such
\* peer.
C27_StalledSyncPeerReplaced ==
    [][ (IsSyncPass(calls') /\ ~Synced(calls'[1].arg[1], now)) =>
          /\ (/\ lastCheck' # <<>> /\ lastCheck # <<>>
               /\ next' # next
               /\ lastCheck'[1] = lastCheck[1]
               /\ peerMap[lastCheck[1]].last_bundle_ms_time = lastCheck[2]) =>
                  /\ \E i \in CallsOf("Disconnect", calls') : calls'[i].to = lastCheck[1]
                  /\ CallsOf("StartSync", calls') = {}
                  /\ ~peerMap'[lastCheck[1]].valid
          /\ (initial_sync_peer = 0 \/ ~PeerValid(peerMap, initial_sync_peer)) =>
                  LET fit == { c \in DOMAIN peerMap :
                                 /\ peerMap[c].valid
                                 /\ peerMap[c].isFullyConnected
                                 /\ peerMap[c].isSyncAvailable }
                  IN  IF fit = {} THEN initial_sync_peer' = 0
                      ELSE initial_sync_peer' \in fit ]_vars

\* C27 witness: the only peer that ever was available for sync has been
\* disconnected by a stall check, with the bundle time an earlier stall
\* check had found.
C27_Witness ==
    /\ IsSyncPass(calls)
    /\ lastCheck # <<>>
    /\ lastCheck[2] > 0
    /\ \E i \in CallsOf("Disconnect", calls) : calls[i].to = lastCheck[1]
    /\ \A c \in DOMAIN peerMap : peerMap[c].isSyncAvailable => c = lastCheck[1]

\* C28: the pass of InitialSync that finds the milestone head no older than
\* kSyncTimeThreshold clears initial_sync and the sync peer and leaves the
\* loop; from then on InitialSync makes no call, initial_sync stays clear,
\* and a BLOCK message of a valid peer is forwarded to the DAG.
C28_SyncedLeavesLoop ==
    [][ /\ (IsSyncPass(calls') /\ calls'[1].arg[1] >= now - kSyncTimeThreshold) =>
              /\ ~initial_sync'
              /\ initial_sync_peer' = 0
              /\ pc'["InitialSync"] = "done"
              /\ Len(calls') = 1
        /\ pc["InitialSync"] = "done" =>
              /\ ~IsSyncPass(calls')
              /\ CallsOf("StartSync", calls') = {}
              /\ ~initial_sync /\ ~initial_sync'
              /\ pc'["InitialSync"] = "done"
              /\ (IsHandling(calls', "BLOCK") /\ PeerValid(peerMap, calls'[1].to)) =>
                    \E i \in CallsOf("AddNewBlock", calls') : calls'[i].to = calls'[1].to
      ]_vars

\* C28 witness: after InitialSync has left its loop, with a sync peer it had
\* started, a BLOCK message was forwarded.
C28_Witness ==
    /\ pc["InitialSync"] = "done"
    /\ lastCheck # <<>>
    /\ IsHandling(calls, "BLOCK")
    /\ CallsOf("AddNewBlock", calls) # {}

\* C29: Stop sets interrupt_, then calls QuitQueue, and calls Disconnect on
\* peers only after the four worker loops have ended; every peer that
\* ClearPeers takes out of peerMap has had Disconnect called on it by Stop,
\* and peerMap is empty when Stop returns, whatever callbacks of the
\* ConnectionManager arrive while Stop runs.
C29_StopDisconnectsAndEmpties ==
    [][/\ (quit' /\ ~quit) => interrupt
       /\ (stop = "DisconnectAllPeer" /\ stop' = "ClearPeers")
            => /\ \A w \in Workers : pc[w] = "done"
               /\ \A c \in DOMAIN peerMap :
                     Len(SelectSeq(calls', LAMBDA k : k.op = "Disconnect" /\ k.to = c)) = 1
       /\ (stop = "ClearPeers" /\ stop' = "StopConnectionManager")
            => \A c \in DOMAIN peerMap : ~peerMap[c].valid
       /\ (stop' = "returned") => peerMap' = EmptyMap]_vars

\* C30: once Stop has set interrupt_ and called QuitQueue, the four worker
\* loops end, wherever they were, and Stop returns.
C30_StopTerminates ==
    (interrupt /\ quit) ~> ((\A w \in Workers : pc[w] = "done") /\ stop = "returned")

\* Stop has returned with HandleMessage released from ReceiveMessage before
\* the initial synchronisation was over.
C30_Witness ==
    /\ stop = "returned"
    /\ \A w \in Workers : pc[w] = "done"
    /\ initial_sync

C33_NoSendUnderLock ==
    [][\A i \in DOMAIN calls' :
          /\ calls'[i].op = "SendMessage" => RelayThread \notin peerLock.shared
          /\ calls'[i].op = "SendPing" => SchedulerThread \notin peerLock.shared]_vars

\* C34: a stall check of InitialSync does not disconnect a sync peer whose
\* last_bundle_ms_time has advanced since the stall check before, be it that
\* the peer was the sync peer of that stall check or that it has become the
\* sync peer since (a peer has no bundle before it is the sync peer).
C34_ProgressingSyncPeerKept ==
    [][ (IsSyncPass(calls') /\ lastCheck # <<>> /\ CallsOf("Disconnect", calls') # {}) =>
          LET p      == lastCheck'[1]
              before == IF lastCheck[1] = p THEN lastCheck[2] ELSE 0
          IN  ~(peerMap[p].last_bundle_ms_time > before) ]_vars

\* C35: when SubmitHash has released the orphan D and every call has
\* returned, an orphan E added with D declared missing, hash(D) not having
\* been submitted since, either was pushed from the deps of D by the call (and
\* so counted down) or is in lose_ends[hash(D)]; this holds for the orphans
\* added while the call was running.
C35_RacingOrphanStaysReachable ==
    (\A t \in Threads : th[t].pc = "idle") =>
        \A E \in DOMAIN declared : \A D \in declared[E] :
            (D \in Range(released) /\ D \notin submitted) =>
                \/ \E t \in Threads : <<D, E>> \in th[t].pushed
                \/ D \in DOMAIN lose_ends /\ E \in lose_ends[D]

\* An orphan added during the call, after its parent was erased, waits in
\* lose_ends for the hash of the parent the call has released.
C35_Witness ==
    /\ \A t \in Threads : th[t].pc = "idle"
    /\ \E E \in th[1].raced : \E D \in declared[E] :
          /\ D \in Range(released) /\ D \notin submitted
          /\ D \in DOMAIN lose_ends /\ E \in lose_ends[D]

\* C36: a peer that Disconnect was called on by the seed drop of
\* ProcessAddressMessage or by the stall check of InitialSync, and so is
\* invalid and still in peerMap, is out of peerMap in the end.
C36_DisconnectedPeerRemoved ==
    \A c \in TimedConns :
        (c \in DOMAIN peerMap /\ ~peerMap[c].valid) ~> (c \notin DOMAIN peerMap)

\* A sweep of CheckTimeout has erased, without Disconnect, the peer the
\* last stall check was about.
C36_Witness ==
    /\ calls # <<>> /\ calls[1].op = "time"
    /\ lastCheck # <<>>
    /\ CallsOf("Disconnect", calls) = {}
    /\ \E i \in CallsOf("erase", calls) : calls[i].to = lastCheck[1]

\* C37: a pass of HandleMessage for a message whose connection has no peer
\* in peerMap, or whose peer is not valid, makes no call after
\* ReceiveMessage (none on the DAG, MEMPOOL, the address book, a peer or a
\* relay) and leaves the peers and the address book as they are.
C37_NoDispatchWithoutValidPeer ==
    [][ (/\ calls' # <<>> /\ calls'[1].op = "ReceiveMessage"
         /\ \/ calls'[1].to \notin DOMAIN peerMap
            \/ ~peerMap[calls'[1].to].valid)
          => /\ Len(calls') = 1
             /\ peerMap' = peerMap
             /\ lastTry' = lastTry ]_vars

\* An ADDR message of a seed that is in peerMap and no longer valid has
\* been dropped.
C37_Witness ==
    /\ IsHandling(calls, "ADDR")
    /\ Len(calls) = 1
    /\ calls[1].to \in DOMAIN peerMap
    /\ peerMap[calls[1].to].isSeed
    /\ ~peerMap[calls[1].to].valid

\* C38: update_key(oldKey, newKey) returns false and leaves the map as it was
\* when oldKey is absent; when oldKey is present and newKey is absent or equal
\* to oldKey, it returns true and the value of oldKey is found under newKey
\* (and no longer under oldKey, unless the keys are equal), the other entries
\* untouched; when both keys are present and differ, it returns false, newKey
\* keeps its value and the entry of oldKey is removed.
C38_UpdateKeyCases ==
    [][updated'.n # updated.n =>
        LET oldKey == updated'.oldKey
            newKey == updated'.newKey
        IN  /\ oldKey \notin DOMAIN hashMap =>
                 /\ ~updated'.ret
                 /\ hashMap' = hashMap
            /\ (oldKey \in DOMAIN hashMap
                  /\ (newKey \notin DOMAIN hashMap \/ newKey = oldKey)) =>
                 /\ updated'.ret
                 /\ DOMAIN hashMap' = ((DOMAIN hashMap) \ {oldKey}) \cup {newKey}
                 /\ hashMap'[newKey] = hashMap[oldKey]
                 /\ \A k \in DOMAIN hashMap' \ {newKey} : hashMap'[k] = hashMap[k]
            /\ (oldKey \in DOMAIN hashMap /\ newKey \in DOMAIN hashMap
                  /\ newKey # oldKey) =>
                 /\ ~updated'.ret
                 /\ DOMAIN hashMap' = (DOMAIN hashMap) \ {oldKey}
                 /\ \A k \in DOMAIN hashMap' : hashMap'[k] = hashMap[k]]_vars

\* update_key has been called with two different keys the map had; it
\* returned false, the old key is gone and the new key is still there.
C38_Witness ==
    /\ updated.n > 0
    /\ updated.hadOld /\ updated.hadNew
    /\ updated.oldKey # updated.newKey
    /\ ~updated.ret
    /\ updated.oldKey \notin DOMAIN hashMap
    /\ updated.newKey \in DOMAIN hashMap

====
